---- MODULE Spec2Model ----
(***************************************************************************)
(* A model of the reusable parts of advent-2023: the DisjointSet           *)
(* (union-find) of src/collect.rs and the shortest-path searches the day   *)
(* 17 Crucible runs over its Map.                                          *)
(***************************************************************************)
EXTENDS Integers, Sequences, FiniteSets, TLC

(***************************************************************************)
(* DisjointSet (src/collect.rs)                                            *)
(***************************************************************************)

\* The largest roster handed to DisjointSet::create.
MaxElems == 4

\* Option<NonZeroUsize>::None; Some(k) is the positive number k.
None == 0

VARIABLES
    nodes,      \* DisjointSet.nodes: index -> element
    reverse,    \* DisjointSet.reverse: element -> index
    parents,    \* DisjointSet.parents: index -> (parent index, Option<size>)
    panic,      \* "none", or the message of the panic that ended the program
    last,       \* the last call: its operation, arguments and return value
    before,     \* parents as they were when the last call started
    prev,       \* the call before the last one, kept when the last call
                \* follows it up (see FollowsUp), NoCall otherwise
    merges,     \* the number of union calls that returned true so far
    usize_bits  \* the width of usize (and of NonZeroUsize) in the build

dsVars == <<nodes, reverse, parents, panic, last, before, prev, merges, usize_bits>>

VARIABLES
    costs,            \* Map.costs: Point -> cost of entering the block
    bounds,           \* Map.bounds: the corners of the map
    cache,            \* Map.cache: (direction, destination) -> cost from the edge
    straight_travel,  \* Crucible.straight_travel: <<fewest, most>> blocks in a line
    timing,           \* cfg!(feature = "timing")
    pc,               \* where Crucible::path is
    frontier,         \* the running search's priority frontier
    dist,             \* the running search's best known cost of each node
    routes,           \* the running search's edge into each node
    astar,            \* what a_star returned
    found,            \* what dijkstras returned
    answer,           \* what Crucible::path returned
    i32_bits,         \* the width of the costs' integer type in the build
    overflow_checks   \* cfg!(overflow_checks): on in debug builds, off in release

pathVars == <<costs, bounds, cache, straight_travel, timing, pc, frontier,
              dist, routes, astar, found, answer, i32_bits, overflow_checks>>

VARIABLES
    comp_edges,    \* Components.edges: node -> the nodes it is wired to
    bfs_start,     \* the start necessary_edges was called with
    bfs_pc,        \* where necessary_edges is
    bfs_frontier,  \* bfs_all's queue of nodes to expand
    bfs_routes,    \* bfs_all's route to each node seen so far
    paths,         \* what bfs_all returned
    counts         \* what necessary_edges returned

bfsVars == <<comp_edges, bfs_start, bfs_pc, bfs_frontier, bfs_routes, paths, counts>>

VARIABLES
    pipes,          \* day 10 Map.pipes: Point -> Pipe
    pipe_start,     \* day 10 Map.start
    pipe_pc,        \* where the pipes test is
    pipe_frontier,  \* bfs_all's queue of nodes to expand
    pipe_routes,    \* bfs_all's route to each node seen so far
    members,        \* what loop_members returned
    distance        \* what loop_distance returned

pipeVars == <<pipes, pipe_start, pipe_pc, pipe_frontier, pipe_routes, members,
              distance>>

VARIABLES
    cost_call   \* the last call of Map::path_cost: its arguments and what it returned

callVars == <<cost_call>>

VARIABLES
    cfg_presses,   \* day 20 Configuration.presses
    cfg_dest,      \* Configuration.dest: module -> its destinations, in order
    cfg_modules,   \* Configuration.modules: name -> Module
    cfg_counts,    \* Configuration.counts: Pulse -> how many were sent
    press_counts,  \* press_button's counts
    pulse_queue,   \* press_button's queue; an entry carries the position it
                   \* was queued at
    press_pc,      \* where press_button is
    sent,          \* the number of pulses queued in this press so far
    received       \* the last pulse taken from the queue, the module it went
                   \* to as it was before, and what the module answered

pulseVars == <<cfg_presses, cfg_dest, cfg_modules, cfg_counts, press_counts,
               pulse_queue, press_pc, sent, received>>

VARIABLES
    grid,             \* day 14 Platform.grid: Point -> Rock
    platform_bounds,  \* Platform.bounds
    tipped,           \* the direction of the last tip, ZERO before the first
    grid_before       \* Platform.grid as it was when the last tip started

platformVars == <<grid, platform_bounds, tipped, grid_before>>

VARIABLES
    bricks,             \* day 22 Tower.bricks: the bricks, each with its z_top
    supported_by,       \* Tower.supported_by: brick -> the bricks it rests on
    supports,           \* Tower.supports: brick -> the bricks that rest on it
    tower_pc,           \* where the run over the tower is
    without,            \* the brick find_unstable_for and clone_without were called with
    removed,            \* find_unstable_for's removed
    unstable_frontier,  \* find_unstable_for's frontier
    all_moved           \* what descend_all returned for the tower without that brick

towerVars == <<bricks, supported_by, supports, tower_pc, without, removed, unstable_frontier, all_moved>>

VARIABLES
    almanac,      \* day 05 Almanac.mappings: the maps, each a sequence of Mappings
    seeds,        \* the seeds of the text: one chunk, a start and a length
    debug_build,  \* cfg!(debug_assertions): debug_assert_eq! is compiled in
    min_pc,       \* where min_location_ranges is
    map_index,    \* the map of the almanac the loop is at
    ranges,       \* min_location_ranges' ranges, the ids in it
    pending,      \* the ranges of ranges.iter() not yet transformed
    next_ranges,  \* min_location_ranges' next_ranges
    call_ids,     \* the ids transform_range was last called with
    call_ret,     \* what that call built as ret
    min_loc       \* what min_location_ranges returned

almanacVars == <<almanac, seeds, debug_build, min_pc, map_index, ranges, pending, next_ranges, call_ids, call_ret, min_loc>>

\* The parts added after the first three.
restVars == <<pipeVars, callVars, pulseVars, platformVars, towerVars, almanacVars>>

vars == <<dsVars, pathVars, bfsVars, restVars>>

\* What the calls on one part of the repository leave alone: the other parts.
notDS == <<pathVars, bfsVars, restVars>>
notPath == <<dsVars, bfsVars, restVars>>
notBfs == <<dsVars, pathVars, restVars>>
notPipes == <<dsVars, pathVars, bfsVars, callVars, pulseVars, platformVars, towerVars, almanacVars>>
notCache == <<dsVars, bfsVars, pipeVars, pulseVars, platformVars, towerVars, almanacVars>>
notPulses == <<dsVars, pathVars, bfsVars, pipeVars, callVars, platformVars, towerVars, almanacVars>>
notPlatform == <<dsVars, pathVars, bfsVars, pipeVars, callVars, pulseVars, towerVars, almanacVars>>
notTower == <<dsVars, pathVars, bfsVars, pipeVars, callVars, pulseVars, platformVars, almanacVars>>
notAlmanac == <<dsVars, pathVars, bfsVars, pipeVars, callVars, pulseVars, platformVars, towerVars>>

\* Each specification runs one part of the repository; the variables of the
\* other parts stay parked.
DSParked ==
    /\ nodes = <<>> /\ reverse = <<>> /\ parents = <<>> /\ panic = "none"
    /\ last = <<>> /\ before = <<>> /\ prev = <<>> /\ merges = 0
    /\ usize_bits = 0

PathParked ==
    /\ costs = <<>> /\ bounds = <<>> /\ cache = <<>> /\ straight_travel = <<>>
    /\ timing = FALSE /\ pc = "parked" /\ frontier = {} /\ dist = <<>>
    /\ routes = <<>> /\ astar = <<>> /\ found = <<>> /\ answer = <<>>
    /\ i32_bits = 0 /\ overflow_checks = FALSE

BfsParked ==
    /\ comp_edges = <<>> /\ bfs_start = 0 /\ bfs_pc = "parked"
    /\ bfs_frontier = <<>> /\ bfs_routes = <<>> /\ paths = <<>> /\ counts = <<>>

PipesParked ==
    /\ pipes = <<>> /\ pipe_start = <<>> /\ pipe_pc = "parked"
    /\ pipe_frontier = <<>> /\ pipe_routes = <<>> /\ members = {}
    /\ distance = 0

CacheParked ==
    /\ cost_call = <<>>

PulsesParked ==
    /\ cfg_presses = 0 /\ cfg_dest = <<>> /\ cfg_modules = <<>> /\ cfg_counts = <<>>
    /\ press_counts = <<>> /\ pulse_queue = <<>> /\ press_pc = "parked"
    /\ sent = 0 /\ received = <<>>

PlatformParked ==
    /\ grid = <<>> /\ platform_bounds = <<>> /\ tipped = <<>> /\ grid_before = <<>>

TowerParked ==
    /\ bricks = {} /\ supported_by = <<>> /\ supports = <<>> /\ tower_pc = "parked"
    /\ without = 0 /\ removed = {} /\ unstable_frontier = <<>> /\ all_moved = 0

AlmanacParked ==
    /\ almanac = <<>> /\ seeds = <<>> /\ debug_build = FALSE /\ min_pc = "parked"
    /\ map_index = 0 /\ ranges = {} /\ pending = <<>> /\ next_ranges = {}
    /\ call_ids = [start |-> 0, end |-> 0] /\ call_ret = {} /\ min_loc = [max |-> TRUE, v |-> 0]

\* The parts added after the first three are parked, but for one of them.
RestParked(except) ==
    /\ IF except = "pipes" THEN TRUE ELSE PipesParked
    /\ IF except = "cache" THEN TRUE ELSE CacheParked
    /\ IF except = "pulses" THEN TRUE ELSE PulsesParked
    /\ IF except = "platform" THEN TRUE ELSE PlatformParked
    /\ IF except = "tower" THEN TRUE ELSE TowerParked
    /\ IF except = "almanac" THEN TRUE ELSE AlmanacParked

\* Values a caller may pass as an element; the roster is a prefix of these,
\* so the largest one is never part of the roster.
Universe == 1 .. (MaxElems + 1)

\* The rosters create is called with: the test's [1, 2, .., n].
Roster(n) == [i \in 0 .. (n - 1) |-> i + 1]

\* n >> bits and n << bits
RECURSIVE shr(_, _)
shr(n, bits) == IF bits = 0 \/ n = 0 THEN n ELSE shr(n \div 2, bits - 1)
RECURSIVE shl(_, _)
shl(n, bits) == IF bits = 0 \/ n = 0 THEN n ELSE shl(n * 2, bits - 1)

\* Option<T>
Some(v) == [some |-> TRUE, v |-> v]
Nothing == [some |-> FALSE, v |-> 0]

\* An addition of usize that wraps around instead of being checked.
checked_add_Wrapping(a, b) ==
    Some((a + b) - shl(shr(a + b, usize_bits), usize_bits))

\* NonZeroUsize::checked_add: None when the sum does not fit usize.
checked_add(a, b) ==
    IF shr(a + b, usize_bits) # 0 THEN Nothing ELSE Some(a + b)

\* create with every entry parented to index 0 instead of to itself.
create_ParentZero(elements) ==
    [ nodes   |-> elements,
      reverse |-> [e \in {elements[i] : i \in DOMAIN elements} |->
                      CHOOSE i \in DOMAIN elements : elements[i] = e],
      parents |-> [n \in DOMAIN elements |-> [p |-> 0, s |-> 1]] ]

\* DisjointSet::create
create(elements) ==
    [ nodes   |-> elements,
      \* collecting into a HashMap keeps the last index of an element
      reverse |-> [e \in {elements[i] : i \in DOMAIN elements} |->
                      CHOOSE i \in DOMAIN elements :
                          /\ elements[i] = e
                          /\ \A j \in DOMAIN elements : elements[j] = e => j <= i],
      parents |-> [n \in DOMAIN elements |-> [p |-> n, s |-> 1]] ]

\* find_idx that stops at the parent instead of walking on to the root.
find_idx_NoRecursion(ps, idx) ==
    LET parent == ps[idx] IN
    IF parent.p = idx
    THEN [parents |-> ps, root |-> parent.p, size |-> parent.s,
          ok |-> parent.s # None]
    ELSE [parents |-> ps, root |-> parent.p, size |-> 1, ok |-> TRUE]

\* find_idx that walks to the root without rewriting any parent.
RECURSIVE find_idx_NoWrite(_, _)
find_idx_NoWrite(ps, idx) ==
    LET parent == ps[idx] IN
    IF parent.p = idx
    THEN [parents |-> ps, root |-> parent.p, size |-> parent.s,
          ok |-> parent.s # None]
    ELSE find_idx_NoWrite(ps, parent.p)

\* find_idx that rewrites the entry of the parent instead of the entry of idx.
RECURSIVE find_idx_WritesParent(_, _)
find_idx_WritesParent(ps, idx) ==
    LET parent == ps[idx] IN
    IF parent.p = idx
    THEN [parents |-> ps, root |-> parent.p, size |-> parent.s,
          ok |-> parent.s # None]
    ELSE LET root == find_idx_WritesParent(ps, parent.p) IN
         [parents |-> IF root.ok
                      THEN [root.parents EXCEPT ![parent.p] = [p |-> root.root, s |-> None]]
                      ELSE root.parents,
          root |-> root.root, size |-> root.size, ok |-> root.ok]

\* DisjointSet::find_idx: the walk to the root, compressing the path on the
\* way back.  ok is FALSE when expect("Root size is known") panics.
RECURSIVE find_idx(_, _)
find_idx(ps, idx) ==
    LET parent == ps[idx] IN
    IF parent.p = idx
    THEN [parents |-> ps, root |-> parent.p, size |-> parent.s,
          ok |-> parent.s # None]
    ELSE LET root == find_idx(ps, parent.p) IN
         [parents |-> IF root.ok
                      THEN [root.parents EXCEPT ![idx] = [p |-> root.root, s |-> None]]
                      ELSE root.parents,
          root |-> root.root, size |-> root.size, ok |-> root.ok]

\* union_idx that stores the larger set's size instead of the sum.
union_idx_NoSum(ps, ia, ib) ==
    LET fa == find_idx(ps, ia)
        fb == find_idx(fa.parents, ib)
        swap == fa.size < fb.size
        a == IF swap THEN fb ELSE fa
        b == IF swap THEN fa ELSE fb
    IN
    IF fa.root = fb.root /\ fa.size = fb.size
    THEN [parents |-> fb.parents, ret |-> FALSE, ok |-> TRUE]
    ELSE [parents |-> [fb.parents EXCEPT
                          ![b.root] = [p |-> a.root, s |-> None],
                          ![a.root] = [p |-> a.root, s |-> a.size]],
          ret |-> TRUE, ok |-> TRUE]

\* union_idx that counts one element for the attached set, whatever its size.
union_idx_PlusOne(ps, ia, ib) ==
    LET fa == find_idx(ps, ia)
        fb == find_idx(fa.parents, ib)
        swap == fa.size < fb.size
        a == IF swap THEN fb ELSE fa
        b == IF swap THEN fa ELSE fb
    IN
    IF fa.root = fb.root /\ fa.size = fb.size
    THEN [parents |-> fb.parents, ret |-> FALSE, ok |-> TRUE]
    ELSE [parents |-> [fb.parents EXCEPT
                          ![b.root] = [p |-> a.root, s |-> None],
                          ![a.root] = [p |-> a.root, s |-> a.size + 1]],
          ret |-> TRUE, ok |-> TRUE]

\* union_idx that compares the two sizes only, not the (root, size) pairs.
union_idx_SizeOnly(ps, ia, ib) ==
    LET fa == find_idx(ps, ia)
        fb == find_idx(fa.parents, ib)
        swap == fa.size < fb.size
        a == IF swap THEN fb ELSE fa
        b == IF swap THEN fa ELSE fb
    IN
    IF fa.size = fb.size
    THEN [parents |-> fb.parents, ret |-> FALSE, ok |-> TRUE]
    ELSE [parents |-> [fb.parents EXCEPT
                          ![b.root] = [p |-> a.root, s |-> None],
                          ![a.root] = [p |-> a.root, s |-> a.size + b.size]],
          ret |-> TRUE, ok |-> TRUE]

\* union_idx without the early return for two elements of one set.
union_idx_NoEarlyReturn(ps, ia, ib) ==
    LET fa == find_idx(ps, ia)
        fb == find_idx(fa.parents, ib)
        swap == fa.size < fb.size
        a == IF swap THEN fb ELSE fa
        b == IF swap THEN fa ELSE fb
    IN
    [parents |-> [fb.parents EXCEPT
                     ![b.root] = [p |-> a.root, s |-> None],
                     ![a.root] = [p |-> a.root, s |-> a.size + b.size]],
     ret |-> TRUE, ok |-> TRUE]

\* union_idx that adds the sizes but never re-parents the smaller root.
union_idx_NoLink(ps, ia, ib) ==
    LET fa == find_idx(ps, ia)
        fb == find_idx(fa.parents, ib)
        swap == fa.size < fb.size
        a == IF swap THEN fb ELSE fa
        b == IF swap THEN fa ELSE fb
    IN
    IF fa.root = fb.root /\ fa.size = fb.size
    THEN [parents |-> fb.parents, ret |-> FALSE, ok |-> TRUE]
    ELSE [parents |-> [fb.parents EXCEPT
                          ![a.root] = [p |-> a.root, s |-> a.size + b.size]],
          ret |-> TRUE, ok |-> TRUE]

\* union_idx that never swaps: b's root goes under a's, whatever the sizes.
union_idx_NoSwap(ps, ia, ib) ==
    LET a == find_idx(ps, ia)
        b == find_idx(a.parents, ib)
    IN
    IF a.root = b.root /\ a.size = b.size
    THEN [parents |-> b.parents, ret |-> FALSE, ok |-> TRUE]
    ELSE [parents |-> [b.parents EXCEPT
                          ![b.root] = [p |-> a.root, s |-> None],
                          ![a.root] = [p |-> a.root, s |-> a.size + b.size]],
          ret |-> TRUE, ok |-> TRUE]

\* union_idx that leaves the attached root its old size.
union_idx_StaleSize(ps, ia, ib) ==
    LET fa == find_idx(ps, ia)
        fb == find_idx(fa.parents, ib)
        swap == fa.size < fb.size
        a == IF swap THEN fb ELSE fa
        b == IF swap THEN fa ELSE fb
    IN
    IF fa.root = fb.root /\ fa.size = fb.size
    THEN [parents |-> fb.parents, ret |-> FALSE, ok |-> TRUE]
    ELSE [parents |-> [fb.parents EXCEPT
                          ![b.root] = [p |-> a.root, s |-> b.size],
                          ![a.root] = [p |-> a.root, s |-> a.size + b.size]],
          ret |-> TRUE, ok |-> TRUE]

\* union_idx whose second write parents a's root to b's root.
union_idx_CrossLink(ps, ia, ib) ==
    LET fa == find_idx(ps, ia)
        fb == find_idx(fa.parents, ib)
        swap == fa.size < fb.size
        a == IF swap THEN fb ELSE fa
        b == IF swap THEN fa ELSE fb
    IN
    IF fa.root = fb.root /\ fa.size = fb.size
    THEN [parents |-> fb.parents, ret |-> FALSE, ok |-> TRUE]
    ELSE [parents |-> [fb.parents EXCEPT
                          ![b.root] = [p |-> a.root, s |-> None],
                          ![a.root] = [p |-> b.root, s |-> a.size + b.size]],
          ret |-> TRUE, ok |-> TRUE]

\* DisjointSet::union_idx.  ok is FALSE when the call panics: in one of the
\* two find_idx calls, or in expect("Too big") after parents[b.0] is written.
union_idx(ps, ia, ib) ==
    LET fa == find_idx(ps, ia)
        fb == IF fa.ok THEN find_idx(fa.parents, ib) ELSE fa
    IN
    IF ~(fa.ok /\ fb.ok)
    THEN [parents |-> fb.parents, ret |-> FALSE, ok |-> FALSE,
          msg |-> "Root size is known"]
    ELSE IF fa.root = fb.root /\ fa.size = fb.size
    THEN [parents |-> fb.parents, ret |-> FALSE, ok |-> TRUE, msg |-> "none"]
    ELSE LET swap == fa.size < fb.size
             a == IF swap THEN fb ELSE fa
             b == IF swap THEN fa ELSE fb
             sum == checked_add(a.size, b.size)
             linked == [fb.parents EXCEPT ![b.root] = [p |-> a.root, s |-> None]]
         IN
         IF ~sum.some
         THEN [parents |-> linked, ret |-> FALSE, ok |-> FALSE, msg |-> "Too big"]
         ELSE [parents |-> [linked EXCEPT ![a.root] = [p |-> a.root, s |-> sum.v]],
               ret |-> TRUE, ok |-> TRUE, msg |-> "none"]

\* roots without the filter: every entry contributes its parent's element.
RECURSIVE rootsFrom_NoFilter(_, _, _)
rootsFrom_NoFilter(ps, ns, k) ==
    IF k \notin DOMAIN ps THEN <<>>
    ELSE <<ns[ps[k].p]>> \o rootsFrom_NoFilter(ps, ns, k + 1)

\* DisjointSet::roots: the self-parented entries, in index order.
RECURSIVE rootsFrom(_, _, _)
rootsFrom(ps, ns, k) ==
    IF k \notin DOMAIN ps THEN <<>>
    ELSE (IF ps[k].p = k THEN <<ns[k]>> ELSE <<>>) \o rootsFrom(ps, ns, k + 1)

roots(ps, ns) == rootsFrom(ps, ns, 0)

NoCall == [op |-> "none", a |-> 0, b |-> 0, ret |-> 0]

\* The call repeats the one before it, or is a find of what the find before
\* it returned.
FollowsUp(call, l) ==
    \/ call.op = l.op /\ call.a = l.a /\ call.b = l.b
    \/ call.op = "find" /\ l.op = "find" /\ call.a = l.ret

\* The bookkeeping of a call: what it was, and the state it started in.
Called(call) ==
    /\ last' = call
    /\ before' = parents
    /\ prev' = IF FollowsUp(call, last) THEN last ELSE NoCall

DSInit ==
    \E n \in 0 .. MaxElems :
        LET ds == create(Roster(n)) IN
        /\ PathParked
        /\ BfsParked
        /\ RestParked("")
        /\ nodes = ds.nodes
        /\ reverse = ds.reverse
        /\ parents = ds.parents
        /\ panic = "none"
        /\ last = [op |-> "create", a |-> 0, b |-> 0, ret |-> 0]
        /\ before = ds.parents
        /\ prev = NoCall
        /\ merges = 0
        /\ usize_bits = 64

\* A call that panics, leaving the parents ps behind: the program ends, the
\* structure is not used again.
Abort(msg, op, a, b, ps) ==
    /\ panic' = msg
    /\ parents' = ps
    /\ Called([op |-> op, a |-> a, b |-> b, ret |-> 0])
    /\ UNCHANGED <<nodes, reverse, merges, usize_bits, notDS>>

\* find that takes index 0 for an element the reverse map does not hold.
Find_DefaultIndex(e) ==
    /\ panic = "none"
    /\ 0 \in DOMAIN parents
    /\ LET r == find_idx(parents, IF e \in DOMAIN reverse THEN reverse[e] ELSE 0) IN
       /\ r.ok
       /\ parents' = r.parents
       /\ Called([op |-> "find", a |-> e, b |-> e, ret |-> nodes[r.root]])
       /\ UNCHANGED <<nodes, reverse, panic, merges, usize_bits, notDS>>

\* DisjointSet::find
Find(e) ==
    /\ panic = "none"
    /\ IF e \notin DOMAIN reverse
       THEN Abort("no entry found for key", "find", e, e, parents)
       ELSE LET r == find_idx(parents, reverse[e]) IN
            IF ~r.ok
            THEN Abort("Root size is known", "find", e, e, r.parents)
            ELSE /\ parents' = r.parents
                 /\ Called([op |-> "find", a |-> e, b |-> e, ret |-> nodes[r.root]])
                 /\ UNCHANGED <<nodes, reverse, panic, merges, usize_bits, notDS>>

\* DisjointSet::set_size
SetSize(e) ==
    /\ panic = "none"
    /\ IF e \notin DOMAIN reverse
       THEN Abort("no entry found for key", "set_size", e, e, parents)
       ELSE LET r == find_idx(parents, reverse[e]) IN
            IF ~r.ok
            THEN Abort("Root size is known", "set_size", e, e, r.parents)
            ELSE /\ parents' = r.parents
                 /\ Called([op |-> "set_size", a |-> e, b |-> e, ret |-> r.size])
                 /\ UNCHANGED <<nodes, reverse, panic, merges, usize_bits, notDS>>

\* DisjointSet::union
Union(a, b) ==
    /\ panic = "none"
    /\ IF a \notin DOMAIN reverse \/ b \notin DOMAIN reverse
       THEN Abort("no entry found for key", "union", a, b, parents)
       ELSE LET r == union_idx(parents, reverse[a], reverse[b]) IN
            IF ~r.ok
            THEN Abort(r.msg, "union", a, b, r.parents)
            ELSE /\ parents' = r.parents
                 /\ Called([op |-> "union", a |-> a, b |-> b, ret |-> r.ret])
                 /\ merges' = IF r.ret THEN merges + 1 ELSE merges
                 /\ UNCHANGED <<nodes, reverse, panic, usize_bits, notDS>>

\* DisjointSet::roots
Roots ==
    /\ panic = "none"
    /\ Called([op |-> "roots", a |-> 0, b |-> 0, ret |-> roots(parents, nodes)])
    /\ UNCHANGED <<nodes, reverse, parents, panic, merges, usize_bits, notDS>>

DSNext ==
    \/ \E e \in Universe : Find(e)
    \/ \E e \in Universe : SetSize(e)
    \/ \E a \in Universe, b \in Universe : Union(a, b)
    \/ Roots

SpecDS == DSInit /\ [][DSNext]_vars

\* The widths of usize the narrow build is run at: the largest index of a
\* full roster still fits, the size of the full roster does not.
NarrowBits == {2}

\* The same program built with a usize too narrow for the size of the roster.
DSNarrowInit ==
    \E n \in 0 .. MaxElems, w \in NarrowBits :
        LET ds == create(Roster(n)) IN
        /\ PathParked
        /\ BfsParked
        /\ RestParked("")
        /\ nodes = ds.nodes
        /\ reverse = ds.reverse
        /\ parents = ds.parents
        /\ panic = "none"
        /\ last = [op |-> "create", a |-> 0, b |-> 0, ret |-> 0]
        /\ before = ds.parents
        /\ prev = NoCall
        /\ merges = 0
        /\ usize_bits = w

SpecDSNarrow == DSNarrowInit /\ [][DSNext]_vars

(***************************************************************************)
(* DisjointSet: what the calls are measured against                        *)
(***************************************************************************)

\* The root of idx's tree, found without touching the parents.
RECURSIVE rootOf(_, _)
rootOf(ps, idx) == IF ps[idx].p = idx THEN idx ELSE rootOf(ps, ps[idx].p)

\* The indices that share a tree with idx.
SetOf(ps, idx) == {j \in DOMAIN ps : rootOf(ps, j) = rootOf(ps, idx)}

\* The elements given to create, and how many they are.
Elements == DOMAIN reverse
ElementCount == Cardinality(DOMAIN nodes)

\* find(e) and set_size(e) as a caller sees them, run on the parents ps.
findIn(ps, e) ==
    LET r == find_idx(ps, reverse[e]) IN
    [parents |-> r.parents, ret |-> nodes[r.root], size |-> r.size, ok |-> r.ok]

\* sum(set_size(r) for r in rs), each call running on what the one before
\* left behind.
RECURSIVE sumSetSizes(_, _)
sumSetSizes(ps, rs) ==
    IF rs = <<>> THEN 0
    ELSE LET r == findIn(ps, Head(rs)) IN r.size + sumSetSizes(r.parents, Tail(rs))

Range(seq) == {seq[i] : i \in DOMAIN seq}

\* Some parent pointer was rewritten by the last call (path compression).
Compressed == \E i \in DOMAIN parents : parents[i].p # before[i].p

\* C1: after create over n elements and any sequence of union, find and
\* set_size calls, the set sizes of the roots add up to n.
C1_SizesSumToCount ==
    panic = "none" => sumSetSizes(parents, roots(parents, nodes)) = ElementCount

C1_Witness ==
    /\ panic = "none"
    /\ merges >= 2
    /\ last.op \in {"find", "set_size"}
    /\ Len(roots(parents, nodes)) >= 2
    /\ sumSetSizes(parents, roots(parents, nodes)) = MaxElems

\* C2: union(a, b) returns true exactly when a and b were in different sets
\* before the call, and after a call that returned true find(a) = find(b).
C2_UnionTrueIffDifferentSets ==
    (last.op = "union" /\ panic = "none") =>
        LET ia == reverse[last.a]
            ib == reverse[last.b]
            fa == findIn(parents, last.a)
            fb == findIn(fa.parents, last.b)
        IN
        /\ last.ret = (rootOf(before, ia) # rootOf(before, ib))
        /\ last.ret => (fa.ok /\ fb.ok /\ fa.ret = fb.ret)

C2_Witness ==
    /\ last.op = "union" /\ panic = "none" /\ last.ret
    /\ merges >= 2
    /\ Cardinality(SetOf(before, reverse[last.a])) >= 2
    /\ Cardinality(SetOf(before, reverse[last.b])) >= 2

\* C3: when a and b already share a set, union(a, b) returns false and is
\* a no-op: no element changes set, no set's representative changes and no
\* set's size changes.
C3_UnionSameSetNoOp ==
    (last.op = "union" /\ panic = "none"
        /\ rootOf(before, reverse[last.a]) = rootOf(before, reverse[last.b])) =>
        /\ last.ret = FALSE
        /\ \A i \in DOMAIN parents : rootOf(parents, i) = rootOf(before, i)
        /\ \A i \in DOMAIN parents :
               before[i].p = i => (parents[i].p = i /\ parents[i].s = before[i].s)
        /\ \A i \in DOMAIN parents :
               findIn(parents, nodes[i]).size = findIn(before, nodes[i]).size

C3_Witness ==
    /\ last.op = "union" /\ panic = "none" /\ last.a # last.b
    /\ rootOf(before, reverse[last.a]) = rootOf(before, reverse[last.b])
    /\ last.ret = FALSE
    /\ Compressed

\* C4: union(a, b) called twice in a row on the same pair: whatever the
\* first call returned, the second returns false.
C4_SecondUnionFalse ==
    (last.op = "union" /\ prev.op = "union" /\ last.a = prev.a /\ last.b = prev.b
        /\ last.a \in Elements /\ last.b \in Elements) =>
        (panic = "none" /\ last.ret = FALSE)

C4_Witness ==
    /\ last.op = "union" /\ prev.op = "union"
    /\ last.a = prev.a /\ last.b = prev.b
    /\ panic = "none"
    /\ prev.ret = TRUE /\ last.ret = FALSE

\* C5: two consecutive find(x) calls return the same element, find(find(x))
\* is find(x), and find(r) is r for every root r.
C5_FindStable ==
    /\ (last.op = "find" /\ prev.op = "find" /\ last.a = prev.a
            /\ last.a \in Elements) =>
           (panic = "none" /\ last.ret = prev.ret)
    /\ (last.op = "find" /\ prev.op = "find" /\ last.a = prev.ret
            /\ prev.a \in Elements) =>
           (panic = "none" /\ last.ret = prev.ret)
    /\ (last.op = "find" /\ last.a \in Range(roots(before, nodes))) =>
           (panic = "none" /\ last.ret = last.a)

\* A find of a non-root element of a set built by two unions, repeated.
C5_Witness ==
    /\ last.op = "find" /\ prev.op = "find" /\ last.a = prev.a
    /\ panic = "none"
    /\ last.ret = prev.ret /\ last.ret # last.a
    /\ parents = before
    /\ merges >= 2

\* C6: set_size(e) returns the number of elements x with find(x) = find(e),
\* in every state reachable by union and find calls.
C6_SetSizeCountsMembers ==
    /\ (last.op = "set_size" /\ panic = "none") =>
           last.ret = Cardinality(SetOf(before, reverse[last.a]))
    /\ panic = "none" =>
           \A e \in Elements :
               findIn(parents, e).size =
                   Cardinality({x \in Elements :
                       LET fx == findIn(parents, x) IN
                       findIn(fx.parents, e).ret = fx.ret})

C6_Witness ==
    /\ last.op = "set_size" /\ panic = "none"
    /\ last.ret = 3
    /\ last.a # nodes[rootOf(before, reverse[last.a])]
    /\ \E e \in Elements : findIn(parents, e).size = 1

\* C7: roots() returns exactly one element per distinct set, that set's
\* representative (find(r) = r), so roots().len() is the element count minus
\* the number of union calls that returned true.
C7_RootsOnePerSet ==
    (last.op = "roots" /\ panic = "none") =>
        /\ Len(last.ret) = ElementCount - merges
        /\ \A i, j \in DOMAIN last.ret : last.ret[i] = last.ret[j] => i = j
        /\ \A i \in DOMAIN last.ret : findIn(parents, last.ret[i]).ret = last.ret[i]
        /\ \A e \in Elements :
               Cardinality({i \in DOMAIN last.ret :
                   nodes[rootOf(parents, reverse[e])] = last.ret[i]}) = 1

C7_Witness ==
    /\ last.op = "roots" /\ panic = "none"
    /\ merges = 2
    /\ Len(last.ret) = 2
    /\ ElementCount = MaxElems

\* C8: create makes every element its own singleton set: right after
\* construction find(e) = e and set_size(e) = 1 for every e, and roots() has
\* one entry per element.
C8_CreateSingletons ==
    last.op = "create" =>
        /\ \A e \in Elements :
               LET f == findIn(parents, e) IN f.ok /\ f.ret = e /\ f.size = 1
        /\ Elements = Range(nodes)
        /\ Len(roots(parents, nodes)) = ElementCount
        /\ Range(roots(parents, nodes)) = Elements

C8_Witness ==
    /\ last.op = "create"
    /\ ElementCount = MaxElems
    /\ \A e \in 1 .. MaxElems : findIn(parents, e).ret = e

\* The entry reached from idx by following k parent pointers.
RECURSIVE hop(_, _, _)
hop(ps, idx, k) == IF k = 0 THEN idx ELSE hop(ps, ps[idx].p, k - 1)

\* The number of parent pointers between idx and the root of its tree.
depth(ps, idx) ==
    CHOOSE k \in 0 .. Cardinality(DOMAIN ps) :
        /\ ps[hop(ps, idx, k)].p = hop(ps, idx, k)
        /\ \A j \in 0 .. (k - 1) : ps[hop(ps, idx, j)].p # hop(ps, idx, j)

\* The entries find_idx(idx) visits: idx, its ancestors and the root.
walk(ps, idx) == {hop(ps, idx, k) : k \in 0 .. depth(ps, idx)}

\* The last call was given an element that create was not.
UnknownElement == last.a \notin Elements \/ last.b \notin Elements

\* C13: find, set_size and union called with an element that was not given
\* to create panic; they return nothing and leave the forest as it was.
C13_UnknownElementPanics ==
    (last.op \in {"find", "set_size", "union"} /\ UnknownElement) =>
        (panic = "no entry found for key" /\ parents = before)

C13_Witness ==
    /\ last.op = "union"
    /\ last.a \in Elements /\ last.b \notin Elements
    /\ panic = "no entry found for key"
    /\ merges >= 1

\* The roots of the two arguments of the last union when it started, and
\* the sum of the sizes stored with them.
rootA == rootOf(before, reverse[last.a])
rootB == rootOf(before, reverse[last.b])
sizeSum == before[rootA].s + before[rootB].s

\* The last call was a union of two different sets.
Merging ==
    /\ last.op = "union" /\ ~UnknownElement
    /\ rootA # rootB

\* n does not fit usize.
TooBig(n) == shr(n, usize_bits) # 0

\* C14: a union whose two set sizes add up to more than usize holds panics
\* with "Too big"; no root is left with a wrapped size, and nothing else
\* raises that panic.
C14_UnionOverflowPanics ==
    /\ (Merging /\ TooBig(sizeSum)) =>
           /\ panic = "Too big"
           /\ \A i \in {rootA, rootB} : parents[i].p = i => parents[i].s = before[i].s
    /\ panic = "Too big" => (Merging /\ TooBig(sizeSum))
    /\ \A i \in DOMAIN parents : ~TooBig(parents[i].s)

C14_Witness ==
    /\ Merging /\ panic = "Too big"
    /\ before[rootA].s = 2 /\ before[rootB].s = 2
    /\ TooBig(sizeSum)

\* C16: a union that merges two sets leaves one of the two old roots as the
\* root of the merged set, one whose set was not the smaller; the other old
\* root is parented to it, and its stored size is the sum of the two sizes.
C16_UnionBySize ==
    (Merging /\ panic = "none") =>
        LET survivor == rootOf(parents, reverse[last.a])
            other == IF survivor = rootA THEN rootB ELSE rootA
        IN
        /\ last.ret = TRUE
        /\ survivor \in {rootA, rootB}
        /\ before[survivor].s >= before[other].s
        /\ parents[other].p = survivor
        /\ parents[survivor] = [p |-> survivor, s |-> sizeSum]
        /\ \A i \in SetOf(before, rootA) \cup SetOf(before, rootB) :
               rootOf(parents, i) = survivor

\* The first argument's set was the smaller one: its root went under the
\* root of the second's.
C16_Witness ==
    /\ Merging /\ panic = "none" /\ last.ret = TRUE
    /\ before[rootA].s < before[rootB].s
    /\ parents[rootA].p = rootB
    /\ parents[rootB].s = sizeSum

\* C17: every entry reaches exactly one root, exactly the self-parented
\* entries carry a size, and expect("Root size is known") never fails.
C17_RootsCarrySizes ==
    /\ panic # "Root size is known"
    /\ \A i \in DOMAIN parents : (parents[i].p = i) <=> (parents[i].s # None)
    /\ \A i \in DOMAIN parents :
           Cardinality({r \in DOMAIN parents :
               /\ parents[r].p = r
               /\ \E k \in 0 .. Cardinality(DOMAIN parents) :
                      hop(parents, i, k) = r}) = 1

\* After three merges and a compressing find: one root that carries the
\* size of the whole roster, and entries below it that carry none.
C17_Witness ==
    /\ panic = "none" /\ merges = 3
    /\ last.op = "find" /\ Compressed
    /\ \E r \in DOMAIN parents : parents[r] = [p |-> r, s |-> MaxElems]
    /\ \E i \in DOMAIN parents : parents[i].p # i /\ parents[i].s = None

\* C18: after find(x) returned the root r, every entry the walk from x to r
\* visited is parented to r, and no entry is farther from its root than it
\* was.
C18_PathCompression ==
    (last.op = "find" /\ panic = "none") =>
        LET r == rootOf(before, reverse[last.a]) IN
        /\ last.ret = nodes[r]
        /\ \A i \in walk(before, reverse[last.a]) : parents[i].p = r
        /\ \A i \in DOMAIN parents : depth(parents, i) <= depth(before, i)

\* A find of an entry two pointers away from its root.
C18_Witness ==
    /\ last.op = "find" /\ panic = "none"
    /\ depth(before, reverse[last.a]) = 2
    /\ depth(parents, reverse[last.a]) = 1

\* C19: find and set_size rewrite only parent pointers of entries on the
\* walked path: no entry changes tree, no root changes, every set keeps its
\* size and roots() returns what it returned before.
C19_FindFrame ==
    (last.op \in {"find", "set_size"} /\ panic = "none") =>
        /\ \A i \in DOMAIN parents : rootOf(parents, i) = rootOf(before, i)
        /\ \A i \in DOMAIN parents : before[i].p = i => parents[i] = before[i]
        /\ \A i \in DOMAIN parents :
               parents[i] # before[i] => i \in walk(before, reverse[last.a])
        /\ \A e \in Elements : findIn(parents, e).size = findIn(before, e).size
        /\ roots(parents, nodes) = roots(before, nodes)

\* A set_size that compressed a path.
C19_Witness ==
    /\ last.op = "set_size" /\ panic = "none"
    /\ Compressed
    /\ last.ret = MaxElems
    /\ last.a # nodes[rootOf(before, reverse[last.a])]

\* C20: the parent pointers form a forest: from every index, following
\* parents reaches a self-parented entry within as many steps as there are
\* entries, so the recursion of find_idx ends.
C20_ParentsFormForest ==
    \A i \in DOMAIN parents :
        /\ parents[i].p \in DOMAIN parents
        /\ \E k \in 0 .. (Cardinality(DOMAIN parents) - 1) :
               parents[hop(parents, i, k)].p = hop(parents, i, k)

\* A tree two pointers deep, after unions and finds.
C20_Witness ==
    /\ panic = "none" /\ merges = 3
    /\ last.op \in {"find", "set_size"}
    /\ \E i \in DOMAIN parents : depth(parents, i) = 2

\* 2 to the power n.
RECURSIVE pow2(_)
pow2(n) == IF n = 0 THEN 1 ELSE 2 * pow2(n - 1)

\* C21: union by size keeps the trees shallow: the number of parent
\* pointers from an entry to its root is at most the binary logarithm of the
\* size of its set, rounded down (2^depth <= size).
C21_TreesAreShallow ==
    \A i \in DOMAIN parents :
        pow2(depth(parents, i)) <= parents[rootOf(parents, i)].s

\* A union has just built a set of four with an entry two pointers below
\* the root: the bound is met with equality.
C21_Witness ==
    /\ panic = "none"
    /\ last.op = "union" /\ last.ret = TRUE
    /\ \E i \in DOMAIN parents :
        /\ depth(parents, i) = 2
        /\ parents[rootOf(parents, i)].s = 4

(***************************************************************************)
(* Day 17 (src/bin/17/main.rs): the Map, the Crucible graph over it, and   *)
(* the searches Crucible::path runs on that graph                          *)
(***************************************************************************)

\* The most blocks a parsed map has.
MaxCells == 6

\* The heights of the maps parsed.
RowCounts == {1, 2}

\* The block costs of the maps parsed, among the digits from_str accepts.
CostDigits == {0, 1, 2}

\* The straight_travel ranges: main's 1..=3 and 4..=10, and 2..=3, an ultra
\* crucible cut down to maps this small.
StraightTravels == {<<1, 3>>, <<4, 10>>, <<2, 3>>}

\* euclid::point, euclid::vector and the arithmetic of Point and Vector
point(x, y) == <<x, y>>
vector(x, y) == <<x, y>>
ZERO == vector(0, 0)
CARDINAL == <<vector(-1, 0), vector(0, -1), vector(1, 0), vector(0, 1)>>
add(p, v) == <<p[1] + v[1], p[2] + v[2]>>
sub(p, q) == <<p[1] - q[1], p[2] - q[2]>>
scale(v, n) == <<v[1] * n, v[2] * n>>
sgn(n) == IF n > 0 THEN 1 ELSE IF n < 0 THEN -1 ELSE 0
abs(n) == IF n < 0 THEN -n ELSE n
signum(v) == <<sgn(v[1]), sgn(v[2])>>
left90(v) == <<v[2], -v[1]>>
right90(v) == <<-v[2], v[1]>>
grid_len(v) == abs(v[1]) + abs(v[2])

SetMin(S) == CHOOSE m \in S : \A x \in S : m <= x
SetMax(S) == CHOOSE m \in S : \A x \in S : m >= x

\* euclid::Bounds::from_points
from_points(points) ==
    [min |-> point(SetMin({q[1] : q \in points}), SetMin({q[2] : q \in points})),
     max |-> point(SetMax({q[1] : q \in points}), SetMax({q[2] : q \in points}))]

\* Map::create
map_create(cs) == [costs |-> cs, bounds |-> from_points(DOMAIN cs), cache |-> <<>>]

\* Map::from_str on h lines of w digits: the points the digits land on.
Cells(w, h) == {point(x, y) : x \in 0 .. (w - 1), y \in 0 .. (h - 1)}

\* n is a value of the costs' signed integer type: its magnitude has fewer
\* bits than the type (a magnitude below the width always has).
fits_i32(n) ==
    LET m == IF n < 0 THEN -(n + 1) ELSE n IN
    m < i32_bits \/ shr(m, i32_bits - 1) = 0

\* n reduced to the costs' integer type, two's complement.
wrap_i32(n) ==
    LET half == shl(1, i32_bits - 1)
        m == (n + half) % (2 * half)
    IN m - half

\* The + and - of main.rs on costs: an overflow panics where overflow checks
\* are on (ok is FALSE) and wraps around where they are off.
plus(a, b) ==
    IF fits_i32(a + b) THEN [ok |-> TRUE, v |-> a + b]
    ELSE [ok |-> ~overflow_checks, v |-> wrap_i32(a + b)]

minus(a, b) ==
    IF fits_i32(a - b) THEN [ok |-> TRUE, v |-> a - b]
    ELSE [ok |-> ~overflow_checks, v |-> wrap_i32(a - b)]

\* path_cost's vec_sub
vec_sub(pos, dir) == point(pos[1] - dir[1], pos[2] - dir[2])

\* edge_cost whose cache is keyed by the destination alone.
RECURSIVE edge_cost_KeyedByDest(_, _, _, _)
edge_cost_KeyedByDest(dir, dest, cs, ch) ==
    IF dest \in DOMAIN ch
    THEN [val |-> Some(ch[dest]), cache |-> ch, ok |-> TRUE]
    ELSE IF dest \notin DOMAIN cs
    THEN [val |-> Nothing, cache |-> ch, ok |-> TRUE]
    ELSE LET cost == cs[dest]
             prior == vec_sub(dest, dir)
             pr == edge_cost_KeyedByDest(dir, prior, cs, ch)
             prior_cost == IF pr.val.some THEN pr.val.v ELSE 0
         IN [val |-> Some(cost + prior_cost), ok |-> TRUE,
             cache |-> (dest :> (cost + prior_cost)) @@ pr.cache]

\* path_cost's edge_cost: the memoized cost of the blocks from the edge of
\* the map to dest, travelling in direction dir.  ok is FALSE when an
\* addition panics.
RECURSIVE edge_cost(_, _, _, _)
edge_cost(dir, dest, cs, ch) ==
    IF <<dir, dest>> \in DOMAIN ch
    THEN [val |-> Some(ch[<<dir, dest>>]), cache |-> ch, ok |-> TRUE]
    ELSE IF dest \notin DOMAIN cs
    THEN [val |-> Nothing, cache |-> ch, ok |-> TRUE]
    ELSE LET cost == cs[dest]
             prior == vec_sub(dest, dir)
             insert(pr) ==
                 LET prior_cost == IF pr.val.some THEN pr.val.v ELSE 0
                     total == plus(cost, prior_cost)
                 IN IF ~(pr.ok /\ total.ok)
                    THEN [val |-> Nothing, cache |-> pr.cache, ok |-> FALSE]
                    ELSE [val |-> Some(total.v), ok |-> TRUE,
                          cache |-> (<<dir, dest>> :> total.v) @@ pr.cache]
         IN insert(edge_cost(dir, prior, cs, ch))

\* Map::path_cost
path_cost(source, dest, cs, ch) ==
    LET dir == signum(sub(dest, source))
        difference(dest_cost, source_cost) ==
            LET diff == minus(dest_cost.val.v, source_cost.val.v) IN
            IF ~source_cost.ok \/ ~source_cost.val.some
            THEN [val |-> Nothing, cache |-> source_cost.cache, ok |-> source_cost.ok]
            ELSE [val |-> IF diff.ok THEN Some(diff.v) ELSE Nothing,
                  cache |-> source_cost.cache, ok |-> diff.ok]
        from_source(dest_cost) ==
            IF ~dest_cost.ok \/ ~dest_cost.val.some
            THEN [val |-> Nothing, cache |-> dest_cost.cache, ok |-> dest_cost.ok]
            ELSE difference(dest_cost, edge_cost(dir, source, cs, dest_cost.cache))
    IN from_source(edge_cost(dir, dest, cs, ch))

\* pathfinding::Edge::new
Edge(weight, source, dest) == [weight |-> weight, source |-> source, dest |-> dest]

Node(pos, dir) == [pos |-> pos, dir |-> dir]

\* neighbors' flat_map: every direction with every run length, in order.
destinations(pos, dirs, st) ==
    LET m == st[2] - st[1] + 1 IN
    [i \in 1 .. (Len(dirs) * m) |->
        LET v == dirs[((i - 1) \div m) + 1]
            n == st[1] + ((i - 1) % m)
        IN Node(add(pos, scale(v, n)), v)]

\* neighbors' filter_map(dest_to_edge): the edges to the destinations that
\* are on the map, each path_cost call filling the cache for the next.
RECURSIVE dest_to_edges(_, _, _, _)
dest_to_edges(dests, source, cs, ch) ==
    IF dests = <<>> THEN [edges |-> <<>>, cache |-> ch, ok |-> TRUE]
    ELSE LET chain(c, rest) ==
                 [edges |-> (IF c.val.some
                             THEN <<Edge(c.val.v, source, Head(dests))>>
                             ELSE <<>>) \o rest.edges,
                  cache |-> rest.cache, ok |-> rest.ok]
             dest_to_edge(c) ==
                 IF ~c.ok THEN [edges |-> <<>>, cache |-> c.cache, ok |-> FALSE]
                 ELSE chain(c, dest_to_edges(Tail(dests), source, cs, c.cache))
         IN dest_to_edge(path_cost(source.pos, Head(dests).pos, cs, ch))

\* Crucible::neighbors
neighbors(source, cs, ch, st) ==
    IF source.dir = ZERO
    THEN dest_to_edges(destinations(source.pos, CARDINAL, st), source, cs, ch)
    ELSE dest_to_edges(
             destinations(source.pos, <<left90(source.dir), right90(source.dir)>>, st),
             source, cs, ch)

\* Crucible::path: start, goal and the heuristic it hands to a_star
start == Node(bounds.min, vector(0, 0))
goal(d) == d.pos = bounds.max
heuristic(n) == grid_len(sub(bounds.max, n.pos))

\* Crucible::path's sum::<i32>() of the weights of a returned path: the
\* weights are added to acc one after the other, from the first edge on.
RECURSIVE sum_from(_, _)
sum_from(acc, route) ==
    IF route = <<>> THEN [ok |-> TRUE, v |-> acc]
    ELSE LET next == plus(acc, Head(route).weight) IN
         IF next.ok THEN sum_from(next.v, Tail(route)) ELSE next

sum(route) == sum_from(0, route)

\* The total cost of a path: the sum of the weights of its edges.
RECURSIVE sum_weights(_)
sum_weights(route) ==
    IF route = <<>> THEN 0 ELSE Head(route).weight + sum_weights(Tail(route))

\* The searches of the pathfinding library.

\* An addition of costs that wraps around instead of being checked.
checked_Wrapping(a, b) ==
    [ok |-> TRUE, v |-> IF fits_i32(a + b) THEN a + b ELSE wrap_i32(a + b)]

\* The addition of costs in a search: checked, an overflow is fatal.
checked(a, b) == [ok |-> fits_i32(a + b), v |-> a + b]

\* The priority of a frontier entry: the accumulated cost, plus the
\* heuristic under a_star.
priority(alg, cost, n) ==
    IF alg = "a_star" THEN checked(cost, heuristic(n)) ELSE [ok |-> TRUE, v |-> cost]

\* A search starts with its start node at cost 0.
begin_search(alg) ==
    /\ frontier' = {[prio |-> priority(alg, 0, start).v, cost |-> 0, node |-> start]}
    /\ dist' = (start :> 0)
    /\ routes' = <<>>
    /\ pc' = alg

\* The edges out of the expanded node, in order: a destination reached
\* more cheaply than before gets the new cost, a frontier entry and a route.
\* ok is FALSE when an addition of costs overflows.
RECURSIVE relax(_, _, _, _)
relax(edges, current_cost, st, alg) ==
    IF edges = <<>> THEN st
    ELSE LET edge == Head(edges)
             next == edge.dest
             next_cost == checked(current_cost, edge.weight)
             prio == priority(alg, next_cost.v, next)
         IN
         IF ~next_cost.ok THEN [st EXCEPT !.ok = FALSE]
         ELSE IF next \notin DOMAIN st.dist \/ st.dist[next] > next_cost.v
         THEN IF ~prio.ok THEN [st EXCEPT !.ok = FALSE]
              ELSE relax(Tail(edges), current_cost,
                         [dist |-> (next :> next_cost.v) @@ st.dist,
                          frontier |-> st.frontier \cup
                              {[prio |-> prio.v, cost |-> next_cost.v, node |-> next]},
                          routes |-> (next :> edge) @@ st.routes,
                          ok |-> TRUE],
                         alg)
         ELSE relax(Tail(edges), current_cost, st, alg)

\* The path to a node: the recorded edge into it, after the path to that
\* edge's source.
RECURSIVE route_to(_, _)
route_to(rs, n) ==
    IF n \notin DOMAIN rs THEN <<>>
    ELSE Append(route_to(rs, rs[n].source), rs[n])

\* The search returns result (a path, or Nothing); its frontier, costs and
\* routes are locals and end with it.
finish(result) ==
    /\ IF pc = "a_star"
       THEN astar' = result /\ pc' = "a_star_done" /\ UNCHANGED found
       ELSE found' = result /\ pc' = "dijkstras_done" /\ UNCHANGED astar
    /\ frontier' = {}
    /\ dist' = <<>>
    /\ routes' = <<>>

\* An overflow panics: the program ends, and the search's locals with it.
overflow ==
    /\ pc' = "panicked"
    /\ frontier' = {}
    /\ dist' = <<>>
    /\ routes' = <<>>
    /\ UNCHANGED <<astar, found>>

PathInit ==
    \E h \in RowCounts :
    \E w \in 1 .. (MaxCells \div h) :
    \E cs \in [Cells(w, h) -> CostDigits], st \in StraightTravels, t \in BOOLEAN :
        LET map == map_create(cs) IN
        /\ DSParked
        /\ BfsParked
        /\ RestParked("")
        /\ costs = map.costs
        /\ bounds = map.bounds
        /\ cache = map.cache
        /\ straight_travel = st
        /\ timing = t
        /\ pc = "path"
        /\ frontier = {}
        /\ dist = <<>>
        /\ routes = <<>>
        /\ astar = Nothing
        /\ found = Nothing
        /\ answer = Nothing
        /\ i32_bits = 32
        /\ overflow_checks = TRUE

\* Crucible::path up to its first search: a_star on a cleared cache when
\* timing, dijkstras otherwise.
Begin ==
    /\ pc = "path"
    /\ IF timing
       THEN cache' = <<>> /\ begin_search("a_star")
       ELSE UNCHANGED cache /\ begin_search("dijkstras")
    /\ UNCHANGED <<costs, bounds, straight_travel, timing, astar, found, answer,
                   i32_bits, overflow_checks, notPath>>

\* One turn of the search loop: the cheapest frontier entry (any of them on
\* a tie) leaves the frontier.  A goal ends the search with the path to it; an
\* entry that a cheaper one for the same node has superseded is dropped; any
\* other node is expanded.
Pop ==
    /\ pc \in {"a_star", "dijkstras"}
    /\ \E cur \in frontier :
        /\ \A other \in frontier : cur.prio <= other.prio
        /\ IF goal(cur.node)
           THEN /\ finish(Some(route_to(routes, cur.node)))
                /\ UNCHANGED cache
           ELSE IF cur.cost > dist[cur.node]
           THEN /\ frontier' = frontier \ {cur}
                /\ UNCHANGED <<cache, dist, routes, pc, astar, found>>
           ELSE LET update(nb, st) ==
                        /\ cache' = nb.cache
                        /\ IF nb.ok /\ st.ok
                           THEN /\ dist' = st.dist
                                /\ frontier' = st.frontier
                                /\ routes' = st.routes
                                /\ UNCHANGED <<pc, astar, found>>
                           ELSE overflow
                    expand(nb) ==
                        update(nb, relax(nb.edges, cur.cost,
                                         [dist |-> dist, frontier |-> frontier \ {cur},
                                          routes |-> routes, ok |-> TRUE], pc))
                IN expand(neighbors(cur.node, costs, cache, straight_travel))
    /\ UNCHANGED <<costs, bounds, straight_travel, timing, answer,
                   i32_bits, overflow_checks, notPath>>

\* The frontier ran empty: the search ends without a path.
Exhausted ==
    /\ pc \in {"a_star", "dijkstras"}
    /\ frontier = {}
    /\ finish(Nothing)
    /\ UNCHANGED <<costs, bounds, cache, straight_travel, timing, answer,
                   i32_bits, overflow_checks, notPath>>

\* Crucible::path between its two searches: the cache is cleared again and
\* dijkstras starts.
AfterAStar ==
    /\ pc = "a_star_done"
    /\ cache' = <<>>
    /\ begin_search("dijkstras")
    /\ UNCHANGED <<costs, bounds, straight_travel, timing, astar, found, answer,
                   i32_bits, overflow_checks, notPath>>

\* Crucible::path that returns a cost of 0 where dijkstras found no path.
Return_OrZero ==
    /\ pc = "dijkstras_done"
    /\ answer' = Some(IF found.some THEN sum(found.v).v ELSE 0)
    /\ pc' = "done"
    /\ UNCHANGED <<costs, bounds, cache, straight_travel, timing, frontier,
                   dist, routes, astar, found, i32_bits, overflow_checks, notPath>>

\* Crucible::path's return: the sum of the weights of dijkstras' path.
Return ==
    /\ pc = "dijkstras_done"
    /\ IF found.some /\ ~sum(found.v).ok
       THEN pc' = "panicked" /\ UNCHANGED answer
       ELSE /\ answer' = IF found.some THEN Some(sum(found.v).v) ELSE Nothing
            /\ pc' = "done"
    /\ UNCHANGED <<costs, bounds, cache, straight_travel, timing, frontier,
                   dist, routes, astar, found, i32_bits, overflow_checks, notPath>>

PathNext == Begin \/ Pop \/ Exhausted \/ AfterAStar \/ Return

SpecPath == PathInit /\ [][PathNext]_vars

\* The widths of the costs' integer type the narrow build is run at.
NarrowCostBits == {4}

\* The block costs of the maps the narrow build parses.
NarrowCostDigits == {0, 3}

\* The same program with costs in an integer type narrow enough for the
\* sums of a small map to overflow, built with overflow checks and without.
PathNarrowInit ==
    \E h \in RowCounts :
    \E w \in 1 .. (MaxCells \div h) :
    \E cs \in [Cells(w, h) -> NarrowCostDigits], st \in StraightTravels,
       t \in BOOLEAN, b \in NarrowCostBits, oc \in BOOLEAN :
        LET map == map_create(cs) IN
        /\ DSParked
        /\ BfsParked
        /\ RestParked("")
        /\ costs = map.costs
        /\ bounds = map.bounds
        /\ cache = map.cache
        /\ straight_travel = st
        /\ timing = t
        /\ pc = "path"
        /\ frontier = {}
        /\ dist = <<>>
        /\ routes = <<>>
        /\ astar = Nothing
        /\ found = Nothing
        /\ answer = Nothing
        /\ i32_bits = b
        /\ overflow_checks = oc

SpecPathNarrow == PathNarrowInit /\ [][PathNext]_vars

(***************************************************************************)
(* Day 17: what the searches are measured against                          *)
(***************************************************************************)

\* The edges out of n as a first call on an empty cache gives them.
edges_of(n) == Range(neighbors(n, costs, <<>>, straight_travel).edges)

\* Of pairs <<node, cost>>, the cheapest for each node.
cheapest(S) == {q \in S : \A r \in S : r[1] = q[1] => q[2] <= r[2]}

\* The cheapest cost from start to each node it reaches: S holds the
\* cheapest pairs so far; the pairs in new are extended along every edge, and
\* what that improves is extended in turn until nothing improves.
RECURSIVE settle(_, _)
settle(S, new) ==
    IF new = {} THEN S
    ELSE LET cand == UNION {{<<e.dest, q[2] + e.weight>> : e \in edges_of(q[1])}
                             : q \in new}
             best == cheapest({c \in cand : \A r \in S : r[1] = c[1] => c[2] < r[2]})
         IN settle({r \in S : \A c \in best : c[1] # r[1]} \cup best, best)

from_start == settle({<<start, 0>>}, {<<start, 0>>})

\* The cheapest cost from each node of N to a goal: the pairs of S, extended
\* backwards along every edge until nothing improves.
RECURSIVE to_goal(_, _)
to_goal(S, N) ==
    LET T == cheapest(S \cup UNION {{<<n, q[2] + e.weight>> :
                                        <<q, e>> \in {x \in S \X edges_of(n) :
                                                         x[2].dest = x[1][1]}}
                                     : n \in N})
    IN IF T = S THEN S ELSE to_goal(T, N)

\* The nodes a search from start can reach.
reachable == {q[1] : q \in from_start}

\* The costs of the cheapest paths from start to the nodes satisfying goal.
goal_costs == {q[2] : q \in {r \in from_start : goal(r[1])}}

\* The heuristic never overestimates the cost that remains from a node the
\* search can reach to a goal.
admissible ==
    LET N == reachable IN
    \A q \in to_goal({<<n, 0>> : n \in {m \in N : goal(m)}}, N) :
        heuristic(q[1]) <= q[2]

\* Some edge lowers the heuristic by more than its weight.
inconsistent ==
    \E n \in reachable : \E e \in edges_of(n) :
        heuristic(n) > e.weight + heuristic(e.dest)

\* route is a path of the graph from start to a node that satisfies goal.
is_path(route) ==
    /\ \A i \in DOMAIN route : route[i] \in edges_of(route[i].source)
    /\ \A i \in DOMAIN route :
           route[i].source = IF i = 1 THEN start ELSE route[i - 1].dest
    /\ goal(IF route = <<>> THEN start ELSE route[Len(route)].dest)

\* C9: on a graph with non-negative edge weights dijkstras returns a path
\* from start to a goal node that costs no more than any other such path.
C9_DijkstrasCheapest ==
    /\ pc = "dijkstras_done" =>
           \/ /\ found.some
              /\ is_path(found.v)
              /\ \A c \in goal_costs : sum_weights(found.v) <= c
           \/ /\ ~found.some
              /\ goal_costs = {}
    /\ pc = "done" => answer = IF found.some THEN Some(sum_weights(found.v)) ELSE Nothing

\* A path of several edges, one of them of weight 0, and the goal can also
\* be entered from another side at a higher cost.
C9_Witness ==
    /\ pc = "done" /\ found.some
    /\ Len(found.v) >= 3
    /\ \E i \in DOMAIN found.v : found.v[i].weight = 0
    /\ answer.v > 0
    /\ \E c \in goal_costs : c > answer.v

\* The two searches agree: both return no path, or both return a path of the
\* graph and the two cost the same.
agree ==
    /\ astar.some = found.some
    /\ found.some =>
           /\ is_path(astar.v)
           /\ sum_weights(astar.v) = sum_weights(found.v)

\* C10: with an admissible heuristic a_star and dijkstras return paths of
\* equal cost on the same graph, start and goal (the edges may differ).
C10_AStarAgreesOnCost ==
    (pc = "dijkstras_done" /\ timing) => (agree \/ ~admissible)

\* The heuristic is admissible without being consistent, and the two paths
\* differ.
C10_Witness ==
    /\ pc = "dijkstras_done" /\ timing
    /\ astar.some /\ found.some
    /\ astar.v # found.v
    /\ sum_weights(found.v) > 0
    /\ admissible
    /\ inconsistent

\* Where the heuristic overestimates, a_star may return a dearer path than
\* dijkstras.
C10_InadmissibleDiffers ==
    /\ pc = "dijkstras_done" /\ timing
    /\ astar.some /\ found.some
    /\ sum_weights(astar.v) > sum_weights(found.v)
    /\ ~admissible

\* Some node that start reaches satisfies goal.  A path of the graph from
\* start to a goal shows one; without such a path at hand, the nodes start
\* reaches are searched.
goal_reached ==
    \/ found.some /\ is_path(found.v)
    \/ astar.some /\ is_path(astar.v)
    \/ \E n \in reachable : goal(n)

\* C12: when no node that start reaches satisfies goal, dijkstras and a_star
\* end with no path once the frontier is empty, and Crucible::path returns
\* None; nothing panics.
C12_UnreachableGoalIsNone ==
    /\ pc # "panicked"
    /\ (pc = "a_star_done" /\ ~astar.some) => frontier = {}
    /\ (pc = "dijkstras_done" /\ ~found.some) => frontier = {}
    /\ pc = "dijkstras_done" =>
           \/ ~found.some /\ ~astar.some
           \/ goal_reached
    /\ (pc = "done" /\ ~found.some) => answer = Nothing

\* Both searches expanded nodes beyond start, none of them a goal.
C12_Witness ==
    /\ pc = "done" /\ timing
    /\ ~astar.some /\ ~found.some /\ answer = Nothing
    /\ Cardinality(reachable) >= 3
    /\ ~\E n \in reachable : goal(n)

MaxNodes == 3

Names == 1 .. MaxNodes

\* The names necessary_edges is called with: one more than the input has.
Starts == 1 .. (MaxNodes + 1)

\* How many lines an input has, and how many names follow the colon.
LineCounts == {0, 1, 2}
DestCounts == {1, 2}

DestLists == UNION {[1 .. k -> Names] : k \in DestCounts}

\* from_str's connections, in the order create iterates over them: a list
\* of <<source, dests>> with each source once.
Connections ==
    {c \in UNION {[1 .. k -> Names \X DestLists] : k \in LineCounts} :
        \A i, j \in DOMAIN c : c[i][1] = c[j][1] => i = j}

\* Components::intern
intern(es, node) == IF node \in DOMAIN es THEN es ELSE (node :> <<>>) @@ es

\* Components::create's inner loop: every dest of one source.
RECURSIVE connect(_, _, _)
connect(es, source, dests) ==
    IF dests = <<>> THEN es
    ELSE LET dest == Head(dests)
             e1 == intern(es, dest)
             e2 == [e1 EXCEPT ![source] = Append(@, dest)]
             e3 == [e2 EXCEPT ![dest] = Append(@, source)]
         IN connect(e3, source, Tail(dests))

\* Components::create
RECURSIVE components_create(_, _)
components_create(es, connections) ==
    IF connections = <<>> THEN es
    ELSE LET source == Head(connections)[1]
             dests == Head(connections)[2]
         IN components_create(connect(intern(es, source), source, dests),
                              Tail(connections))

\* neighbors that returns the edge to the first wired node only.
components_neighbors_First(es, source) ==
    IF source \in DOMAIN es /\ es[source] # <<>>
    THEN <<Edge(1, source, es[source][1])>>
    ELSE <<>>

\* <Components as Graph>::neighbors
components_neighbors(es, source) ==
    IF source \in DOMAIN es
    THEN [i \in 1 .. Len(es[source]) |-> Edge(1, source, es[source][i])]
    ELSE <<>>

\* bfs_all's visit of the edges out of the expanded node, in order: a
\* destination not seen before gets its route and joins the queue.
RECURSIVE bfs_visit(_, _)
bfs_visit(es, st) ==
    IF es = <<>> THEN st
    ELSE LET next == Head(es).dest IN
         IF next \in DOMAIN st.routes THEN bfs_visit(Tail(es), st)
         ELSE bfs_visit(Tail(es),
                        [routes |-> (next :> Append(st.routes[Head(es).source], next))
                                        @@ st.routes,
                         frontier |-> Append(st.frontier, next)])

\* The two ends of the i-th step of a route, the smaller name first.
window(route, i) ==
    IF route[i] < route[i + 1] THEN <<route[i], route[i + 1]>>
    ELSE <<route[i + 1], route[i]>>

\* necessary_edges' counts: how many steps of the routes cross each edge.
count_edges(ps) ==
    LET steps == UNION {{<<n, i>> : i \in 1 .. (Len(ps[n]) - 1)} : n \in DOMAIN ps}
    IN [e \in {window(ps[x[1]], x[2]) : x \in steps} |->
           Cardinality({x \in steps : window(ps[x[1]], x[2]) = e})]

BfsInit ==
    \E c \in Connections :
        /\ DSParked
        /\ PathParked
        /\ RestParked("")
        /\ comp_edges = components_create(<<>>, c)
        /\ bfs_start = 0
        /\ bfs_pc = "idle"
        /\ bfs_frontier = <<>>
        /\ bfs_routes = <<>>
        /\ paths = <<>>
        /\ counts = <<>>

\* necessary_edges(start) calls bfs_all, which starts with start alone.
NecessaryEdges(s) ==
    /\ bfs_pc = "idle"
    /\ bfs_start' = s
    /\ bfs_frontier' = <<s>>
    /\ bfs_routes' = (s :> <<s>>)
    /\ bfs_pc' = "bfs_all"
    /\ UNCHANGED <<comp_edges, paths, counts, notBfs>>

\* One turn of bfs_all's loop: the node at the front of the queue is expanded.
Expand ==
    /\ bfs_pc = "bfs_all"
    /\ bfs_frontier # <<>>
    /\ LET st == bfs_visit(components_neighbors(comp_edges, Head(bfs_frontier)),
                           [routes |-> bfs_routes, frontier |-> Tail(bfs_frontier)])
       IN /\ bfs_routes' = st.routes
          /\ bfs_frontier' = st.frontier
    /\ UNCHANGED <<comp_edges, bfs_start, bfs_pc, paths, counts, notBfs>>

\* The queue is empty: bfs_all returns its routes, and necessary_edges counts
\* their steps.
Counted ==
    /\ bfs_pc = "bfs_all"
    /\ bfs_frontier = <<>>
    /\ paths' = bfs_routes
    /\ counts' = count_edges(bfs_routes)
    /\ bfs_routes' = <<>>
    /\ bfs_pc' = "done"
    /\ UNCHANGED <<comp_edges, bfs_start, bfs_frontier, notBfs>>

BfsNext == (\E s \in Starts : NecessaryEdges(s)) \/ Expand \/ Counted

SpecBfs == BfsInit /\ [][BfsNext]_vars

\* The nodes a finite path leads to from the nodes of S: S, and whatever
\* the wires of Components.edges lead to from there.
RECURSIVE closure(_)
closure(S) ==
    LET T == S \cup UNION {Range(comp_edges[n]) : n \in S \cap DOMAIN comp_edges}
    IN IF T = S THEN S ELSE closure(T)

\* C11: the keys of the mapping bfs_all(start) returns are the nodes a
\* finite path leads to from start: every one of them, and no other node.
C11_BfsAllKeysAreReachable ==
    bfs_pc = "done" => DOMAIN paths = closure({bfs_start})

\* Two nodes wired to each other and a third the search does not reach.
C11_Witness ==
    /\ bfs_pc = "done"
    /\ Cardinality(DOMAIN paths) = 2
    /\ DOMAIN comp_edges \ DOMAIN paths # {}
    /\ \E e \in DOMAIN counts : counts[e] = 1

(***************************************************************************)
(* Day 10 (src/bin/10/main.rs): the Map of pipes, its loop_members and the *)
(* breadth-first search loop_distance runs over it                         *)
(***************************************************************************)

\* The longest side of the rectangle a parsed loop of pipes runs around.
MaxSide == 4

\* Pipe::directions
directions(pipe) ==
    CASE pipe = "Vertical" -> <<vector(0, -1), vector(0, 1)>>
      [] pipe = "Horizontal" -> <<vector(-1, 0), vector(1, 0)>>
      [] pipe = "NorthEast" -> <<vector(0, -1), vector(1, 0)>>
      [] pipe = "NorthWest" -> <<vector(0, -1), vector(-1, 0)>>
      [] pipe = "SouthWest" -> <<vector(0, 1), vector(-1, 0)>>
      [] pipe = "SouthEast" -> <<vector(0, 1), vector(1, 0)>>
      [] OTHER -> <<>>

\* start_type's neighbors.sort_by_key(|v| v.x): a stable sort.
sort_by_x(vs) ==
    LET West(v) == v[1] < 0
        Mid(v) == v[1] = 0
        East(v) == v[1] > 0
    IN SelectSeq(vs, West) \o SelectSeq(vs, Mid) \o SelectSeq(vs, East)

\* Map::start_type: the pipe under the start, from the pipes around it that
\* lead to it.  ok is FALSE where it panics.
start_type(ps, s) ==
    LET LeadsBack(dir) ==
            /\ add(s, dir) \in DOMAIN ps
            /\ \E d \in Range(directions(ps[add(s, dir)])) : add(add(s, dir), d) = s
        sorted == sort_by_x(SelectSeq(CARDINAL, LeadsBack))
    IN IF Len(sorted) # 2 THEN [ok |-> FALSE, v |-> "Start"]
       ELSE IF sorted = <<vector(-1, 0), vector(0, -1)>>
       THEN [ok |-> TRUE, v |-> "NorthWest"]
       ELSE IF sorted = <<vector(0, 1), vector(1, 0)>>
       THEN [ok |-> TRUE, v |-> "SouthEast"]
       ELSE [ok |-> FALSE, v |-> "Start"]

\* neighbors that follows the first direction of a pipe only.
map_neighbors_OneWay(ps, s, source) ==
    LET edges(cur_pipe) ==
            IF ~cur_pipe.ok THEN [ok |-> FALSE, v |-> <<>>]
            ELSE [ok |-> TRUE,
                  v |-> <<Edge(1, source, add(source, directions(cur_pipe.v)[1]))>>]
    IN IF source \notin DOMAIN ps THEN [ok |-> FALSE, v |-> <<>>]
       ELSE IF ps[source] = "Start" THEN edges(start_type(ps, s))
       ELSE edges([ok |-> TRUE, v |-> ps[source]])

\* <Map as Graph>::neighbors: an edge of weight 1 along each direction of the
\* pipe at source.  ok is FALSE where it panics.
map_neighbors(ps, s, source) ==
    LET edges(cur_pipe) ==
            IF ~cur_pipe.ok THEN [ok |-> FALSE, v |-> <<>>]
            ELSE [ok |-> TRUE,
                  v |-> [i \in 1 .. 2 |->
                            Edge(1, source, add(source, directions(cur_pipe.v)[i]))]]
    IN IF source \notin DOMAIN ps THEN [ok |-> FALSE, v |-> <<>>]
       ELSE IF ps[source] = "Start" THEN edges(start_type(ps, s))
       ELSE edges([ok |-> TRUE, v |-> ps[source]])

\* Map::loop_members' loop: the node at the front of the queue is seen, and
\* its neighbors not seen so far join the queue.
RECURSIVE members_from(_, _, _, _)
members_from(ps, s, queue, seen) ==
    IF queue = <<>> THEN [ok |-> TRUE, v |-> seen]
    ELSE LET current == Head(queue)
             Unseen(edge) == edge.dest \notin seen \cup {current}
             push(nb) ==
                 IF ~nb.ok THEN [ok |-> FALSE, v |-> seen \cup {current}]
                 ELSE members_from(ps, s,
                          Tail(queue) \o [i \in 1 .. Len(SelectSeq(nb.v, Unseen)) |->
                                              SelectSeq(nb.v, Unseen)[i].dest],
                          seen \cup {current})
         IN push(map_neighbors(ps, s, current))

\* Map::loop_members
loop_members(ps, s) == members_from(ps, s, <<s>>, {})

\* The pipe of a loop around the rectangle of w by h cells at pos.
ring_pipe(w, h, pos) ==
    LET west == pos[1] = 0
        east == pos[1] = w - 1
        north == pos[2] = 0
        south == pos[2] = h - 1
    IN IF north /\ west THEN "SouthEast"
       ELSE IF north /\ east THEN "SouthWest"
       ELSE IF south /\ west THEN "NorthEast"
       ELSE IF south /\ east THEN "NorthWest"
       ELSE IF north \/ south THEN "Horizontal"
       ELSE "Vertical"

\* The cells of that loop.
ring(w, h) ==
    {pos \in Cells(w, h) :
        pos[1] \in {0, w - 1} \/ pos[2] \in {0, h - 1}}

\* Map::from_str of the text of that loop with an S at s.
parse_ring(w, h, s) ==
    [pos \in ring(w, h) |-> IF pos = s THEN "Start" ELSE ring_pipe(w, h, pos)]

PipesInit ==
    \E w \in 2 .. MaxSide, h \in 2 .. MaxSide :
    \E s \in ring(w, h) :
        /\ DSParked
        /\ PathParked
        /\ BfsParked
        /\ RestParked("pipes")
        /\ pipes = parse_ring(w, h, s)
        /\ pipe_start = s
        /\ pipe_pc = "parsed"
        /\ pipe_frontier = <<>>
        /\ pipe_routes = <<>>
        /\ members = {}
        /\ distance = 0

\* tests::pipes calls loop_members.
LoopMembers ==
    /\ pipe_pc = "parsed"
    /\ LET returned(r) ==
               IF r.ok THEN members' = r.v /\ pipe_pc' = "members"
               ELSE pipe_pc' = "panicked" /\ UNCHANGED members
       IN returned(loop_members(pipes, pipe_start))
    /\ UNCHANGED <<pipes, pipe_start, pipe_frontier, pipe_routes, distance, notPipes>>

\* tests::pipes calls loop_distance, which calls bfs_all; that starts with
\* the start alone.
LoopDistance ==
    /\ pipe_pc = "members"
    /\ pipe_frontier' = <<pipe_start>>
    /\ pipe_routes' = (pipe_start :> <<pipe_start>>)
    /\ pipe_pc' = "bfs_all"
    /\ UNCHANGED <<pipes, pipe_start, members, distance, notPipes>>

\* One turn of bfs_all's loop: the node at the front of the queue is expanded.
ExpandPipe ==
    /\ pipe_pc = "bfs_all"
    /\ pipe_frontier # <<>>
    /\ LET visited(st) ==
               /\ pipe_routes' = st.routes
               /\ pipe_frontier' = st.frontier
               /\ UNCHANGED pipe_pc
           visit(nb) ==
               IF nb.ok
               THEN visited(bfs_visit(nb.v, [routes |-> pipe_routes,
                                             frontier |-> Tail(pipe_frontier)]))
               ELSE /\ pipe_pc' = "panicked"
                    /\ pipe_frontier' = <<>>
                    /\ pipe_routes' = <<>>
       IN visit(map_neighbors(pipes, pipe_start, Head(pipe_frontier)))
    /\ UNCHANGED <<pipes, pipe_start, members, distance, notPipes>>

\* The queue is empty: bfs_all returns its routes, and loop_distance the
\* length of the longest, less one.
Measured ==
    /\ pipe_pc = "bfs_all"
    /\ pipe_frontier = <<>>
    /\ distance' = SetMax({Len(pipe_routes[n]) : n \in DOMAIN pipe_routes}) - 1
    /\ pipe_routes' = <<>>
    /\ pipe_pc' = "done"
    /\ UNCHANGED <<pipes, pipe_start, pipe_frontier, members, notPipes>>

PipesNext == LoopMembers \/ LoopDistance \/ ExpandPipe \/ Measured

SpecPipes == PipesInit /\ [][PipesNext]_vars

\* The pipes joined to the pipe at n: each lies where n leads and leads
\* back to n; the start leads wherever a pipe leads to it.
joined(n) ==
    LET Leads(a, b) ==
            pipes[a] = "Start" \/ \E d \in Range(directions(pipes[a])) : add(a, d) = b
    IN {m \in DOMAIN pipes : m # n /\ Leads(n, m) /\ Leads(m, n)}

\* The pipes at most k hops from the start.
RECURSIVE within(_)
within(k) ==
    IF k = 0 THEN {pipe_start}
    ELSE within(k - 1) \cup UNION {joined(n) : n \in within(k - 1)}

\* The number of hops from the start to n.
hops(n) ==
    CHOOSE k \in 0 .. Cardinality(DOMAIN pipes) :
        /\ n \in within(k)
        /\ k = 0 \/ n \notin within(k - 1)

\* Half the number of nodes of the cycle.
half == Cardinality(DOMAIN pipes) \div 2

\* C22: on a cycle of 2d nodes with edges of weight 1, the search returns
\* for the node d hops from the start a path of cost exactly d, and no node
\* it reaches is farther than d: loop_distance is d, half of what
\* loop_members counts.
C22_CycleFarthestIsHalf ==
    /\ (pipe_pc = "bfs_all" /\ pipe_frontier = <<>>) =>
           /\ DOMAIN pipe_routes = DOMAIN pipes
           /\ \A n \in DOMAIN pipe_routes :
                  /\ Len(pipe_routes[n]) - 1 = hops(n)
                  /\ hops(n) <= half
                  /\ pipe_routes[n][1] = pipe_start
                  /\ pipe_routes[n][Len(pipe_routes[n])] = n
                  /\ \A i \in 1 .. (Len(pipe_routes[n]) - 1) :
                         pipe_routes[n][i + 1] \in joined(pipe_routes[n][i])
           /\ \E n \in DOMAIN pipe_routes : Len(pipe_routes[n]) - 1 = half
    /\ pipe_pc = "done" =>
           /\ Cardinality(members) = 2 * half
           /\ distance = half

\* A loop of more than four pipes, measured.
C22_Witness ==
    /\ pipe_pc = "done"
    /\ distance > 2
    /\ Cardinality(members) = 2 * distance

(***************************************************************************)
(* Day 17 (src/bin/17/main.rs): Map::path_cost called on its own, on every *)
(* map from_str parses, lines of unequal length included                   *)
(***************************************************************************)

\* The most blocks of a map path_cost is called on directly.
MaxBlocks == 3

\* How many lines such a map's text has, how long a line is, and the digits
\* in it.
TextLineCounts == {1, 2, 3}
LineLengths == {0, 1, 2}
BlockDigits == {1, 2}

\* The blocks of a text whose y-th line has lens[y + 1] digits.
text_cells(lens) ==
    UNION {{point(x, y) : x \in 0 .. (lens[y + 1] - 1)} : y \in 0 .. (Len(lens) - 1)}

\* The block layouts from_str accepts: Map::create needs one block at least.
Layouts ==
    {text_cells(lens) : lens \in
        {l \in UNION {[1 .. k -> LineLengths] : k \in TextLineCounts} :
            /\ text_cells(l) # {}
            /\ Cardinality(text_cells(l)) <= MaxBlocks}}

\* The points path_cost is called from: the blocks within the map's bounds.
within_bounds(bs) ==
    {point(x, y) : x \in bs.min[1] .. bs.max[1], y \in bs.min[2] .. bs.max[2]}

\* The points path_cost is called to: those, and one block around them.
around(bs) ==
    {point(x, y) : x \in (bs.min[1] - 1) .. (bs.max[1] + 1),
                   y \in (bs.min[2] - 1) .. (bs.max[2] + 1)}

NoCostCall == [source |-> <<>>, dest |-> <<>>, ret |-> Nothing, called |-> FALSE]

CacheInit ==
    \E cells \in Layouts :
    \E cs \in [cells -> BlockDigits] :
        LET map == map_create(cs) IN
        /\ DSParked
        /\ BfsParked
        /\ RestParked("cache")
        /\ costs = map.costs
        /\ bounds = map.bounds
        /\ cache = map.cache
        /\ straight_travel = <<>>
        /\ timing = FALSE
        /\ pc = "map"
        /\ frontier = {}
        /\ dist = <<>>
        /\ routes = <<>>
        /\ astar = Nothing
        /\ found = Nothing
        /\ answer = Nothing
        /\ i32_bits = 32
        /\ overflow_checks = TRUE
        /\ cost_call = NoCostCall

\* Map::path_cost(source, dest) on the map as it is: source and dest differ
\* and lie on one line.
PathCost(source, dest) ==
    /\ pc = "map"
    /\ source # dest
    /\ source[1] = dest[1] \/ source[2] = dest[2]
    /\ LET returned(r) ==
               /\ r.ok
               /\ cache' = r.cache
               /\ cost_call' = [source |-> source, dest |-> dest, ret |-> r.val,
                                called |-> TRUE]
       IN returned(path_cost(source, dest, costs, cache))
    /\ UNCHANGED <<costs, bounds, straight_travel, timing, pc, frontier, dist,
                   routes, astar, found, answer, i32_bits, overflow_checks,
                   notCache>>

\* cache.borrow_mut().clear()
ClearCache ==
    /\ pc = "map"
    /\ cache # <<>>
    /\ cache' = <<>>
    /\ UNCHANGED <<costs, bounds, straight_travel, timing, pc, frontier, dist,
                   routes, astar, found, answer, i32_bits, overflow_checks,
                   cost_call, notCache>>

CacheNext ==
    \/ \E source \in within_bounds(bounds), dest \in around(bounds) : PathCost(source, dest)
    \/ ClearCache

SpecCache == CacheInit /\ [][CacheNext]_vars

\* The blocks of the straight segment from source to dest, source left out
\* and dest included.
segment(source, dest) ==
    LET dir == signum(sub(dest, source)) IN
    {add(source, scale(dir, n)) : n \in 1 .. grid_len(sub(dest, source))}

\* The sum of the costs of the blocks of S.
RECURSIVE block_sum(_)
block_sum(S) ==
    IF S = {} THEN 0
    ELSE LET b == CHOOSE x \in S : TRUE IN costs[b] + block_sum(S \ {b})

\* What path_cost(source, dest) is to return: nothing when source or dest is
\* outside the map, the sum of the costs of the blocks of the segment
\* otherwise.
segment_cost(source, dest) ==
    IF source \notin DOMAIN costs \/ dest \notin DOMAIN costs THEN Nothing
    ELSE Some(block_sum(segment(source, dest) \cap DOMAIN costs))

\* path_cost with and without its cache returns the same, and every cached
\* entry is what edge_cost computes without a cache.
CacheIsTransparent ==
    /\ cost_call.called =>
           cost_call.ret = path_cost(cost_call.source, cost_call.dest, costs, <<>>).val
    /\ \A key \in DOMAIN cache :
           Some(cache[key]) = edge_cost(key[1], key[2], costs, <<>>).val

\* C23: memoization does not affect path_cost: whatever earlier calls left
\* in the cache, path_cost(source, dest) returns what it returns on an empty
\* cache, which is the sum of the costs of the blocks from source (left out)
\* to dest (included), or nothing when source or dest is outside the map;
\* and every cached entry is the value computed without a cache.
C23_PathCostUnaffectedByCache ==
    /\ CacheIsTransparent
    /\ cost_call.called =>
           cost_call.ret = segment_cost(cost_call.source, cost_call.dest)

(***************************************************************************)
(* Day 20 (src/bin/20/main.rs): the modules of a Configuration and the     *)
(* pulses press_button sends through them                                  *)
(***************************************************************************)

\* The most presses of the button, and the most pulses one press queues (a
\* configuration may send pulses in circles without end).
MaxPresses == 2
MaxPulses == 8

\* Module
FlipFlop(state) ==
    [kind |-> "FlipFlop", state |-> state, inputs |-> <<>>, first_low |-> Nothing,
     seen |-> <<>>]
Conjunction(inputs, first_low) ==
    [kind |-> "Conjunction", state |-> FALSE, inputs |-> inputs,
     first_low |-> first_low, seen |-> <<>>]
Broadcaster ==
    [kind |-> "Broadcaster", state |-> FALSE, inputs |-> <<>>, first_low |-> Nothing,
     seen |-> <<>>]
Output(seen) ==
    [kind |-> "Output", state |-> FALSE, inputs |-> <<>>, first_low |-> Nothing,
     seen |-> seen]
Rx ==
    [kind |-> "Rx", state |-> FALSE, inputs |-> <<>>, first_low |-> Nothing,
     seen |-> <<>>]

\* A flip-flop that sends what it received.
receive_flip_flop_Echo(module, pulse) ==
    IF pulse = "High" THEN [module |-> module, output |-> Nothing]
    ELSE [module |-> FlipFlop(~module.state), output |-> Some(pulse)]

\* Module::receive of a FlipFlop
receive_flip_flop(module, pulse) ==
    IF pulse = "High" THEN [module |-> module, output |-> Nothing]
    ELSE [module |-> FlipFlop(~module.state),
          output |-> Some(IF ~module.state THEN "High" ELSE "Low")]

\* A conjunction that answers from its memory as it was before the pulse.
receive_conjunction_Stale(module, source, pulse, press) ==
    IF \A i \in DOMAIN module.inputs : module.inputs[i] = "High"
    THEN [module |-> Conjunction((source :> pulse) @@ module.inputs,
                                 IF module.first_low.some THEN module.first_low
                                 ELSE Some(press)),
          output |-> Some("Low")]
    ELSE [module |-> Conjunction((source :> pulse) @@ module.inputs, module.first_low),
          output |-> Some("High")]

\* Module::receive of a Conjunction
receive_conjunction(module, source, pulse, press) ==
    LET inputs == (source :> pulse) @@ module.inputs IN
    IF \A i \in DOMAIN inputs : inputs[i] = "High"
    THEN [module |-> Conjunction(inputs, IF module.first_low.some THEN module.first_low
                                         ELSE Some(press)),
          output |-> Some("Low")]
    ELSE [module |-> Conjunction(inputs, module.first_low), output |-> Some("High")]

\* Module::receive
receive(module, source, pulse, press) ==
    CASE module.kind = "FlipFlop" -> receive_flip_flop(module, pulse)
      [] module.kind = "Conjunction" -> receive_conjunction(module, source, pulse, press)
      [] module.kind = "Broadcaster" -> [module |-> module, output |-> Some(pulse)]
      [] module.kind = "Output" ->
            [module |-> Output([module.seen EXCEPT ![Len(module.seen)] = Append(@, pulse)]),
             output |-> Nothing]
      [] OTHER -> [module |-> module, output |-> Nothing]

\* from_str's match on the marker of a line
module_of(marker) ==
    IF marker = "" THEN Broadcaster
    ELSE IF marker = "%" THEN FlipFlop(FALSE)
    ELSE Conjunction(<<>>, Nothing)

\* from_str's source.entry(d).or_insert_with(Vec::new).push(name) for every
\* destination d of a line
RECURSIVE record_sources(_, _, _)
record_sources(source, name, dests) ==
    IF dests = <<>> THEN source
    ELSE LET d == Head(dests)
             senders == IF d \in DOMAIN source THEN source[d] ELSE <<>>
         IN record_sources((d :> Append(senders, name)) @@ source, name, Tail(dests))

\* from_str's loop over the lines
RECURSIVE read_lines(_, _)
read_lines(lines, acc) ==
    IF lines = <<>> THEN acc
    ELSE LET line == Head(lines) IN
         IF line.marker = "" /\ line.name # "broadcaster"
         THEN [acc EXCEPT !.ok = FALSE]
         ELSE read_lines(Tail(lines),
                  [ok |-> acc.ok,
                   source |-> record_sources(acc.source, line.name, line.dests),
                   dest |-> (line.name :> line.dests) @@ acc.dest,
                   modules |-> (line.name :> module_of(line.marker)) @@ acc.modules])

\* Configuration::from_str: ok is FALSE where it fails or panics.
from_str(lines) ==
    LET connected(read, name) ==
            IF read.modules[name].kind = "Conjunction"
            THEN Conjunction([i \in Range(read.source[name]) |-> "Low"], Nothing)
            ELSE read.modules[name]
        configuration(read) ==
            IF ~read.ok \/ \E name \in DOMAIN read.modules :
                               /\ read.modules[name].kind = "Conjunction"
                               /\ name \notin DOMAIN read.source
            THEN [ok |-> FALSE, dest |-> <<>>, modules |-> <<>>]
            ELSE [ok |-> TRUE,
                  dest |-> read.dest,
                  modules |->
                      (IF "output" \in DOMAIN read.source
                       THEN ("output" :> Output(<<>>)) ELSE <<>>)
                      @@ (IF "rx" \in DOMAIN read.source THEN ("rx" :> Rx) ELSE <<>>)
                      @@ [name \in DOMAIN read.modules |-> connected(read, name)]]
    IN configuration(read_lines(lines, [ok |-> TRUE, source |-> <<>>, dest |-> <<>>,
                                        modules |-> <<>>]))

\* The names a text gives its modules besides the broadcaster, and what a
\* destination may be: one of them or the output.
ModuleNames == <<"a", "b">>
Targets == Range(ModuleNames) \cup {"output"}

\* What follows the arrow of a line: one or two different names.
TargetLists ==
    {t \in [1 .. 1 -> Targets] \cup [1 .. 2 -> Targets] :
        \A i, j \in DOMAIN t : t[i] = t[j] => i = j}

\* The marker of a module's line; "-" where the text has no line for it.
Markers == {"%", "&", "-"}

\* The lines of a text: the broadcaster's, then those of the other modules.
text_lines(bdests, markers, mdests) ==
    LET line(i) ==
            IF markers[i] = "-" THEN <<>>
            ELSE <<[marker |-> markers[i], name |-> ModuleNames[i], dests |-> mdests[i]]>>
        RECURSIVE from(_)
        from(i) == IF i > Len(ModuleNames) THEN <<>> ELSE line(i) \o from(i + 1)
    IN <<[marker |-> "", name |-> "broadcaster", dests |-> bdests]>> \o from(1)

NoPulse ==
    [source |-> "", dest |-> "", pulse |-> "", position |-> 0, known |-> FALSE,
     before |-> Rx, output |-> Nothing, queued |-> <<>>, left |-> <<>>]

PulsesInit ==
    \E bdests \in TargetLists :
    \E markers \in [DOMAIN ModuleNames -> Markers] :
    \E mdests \in [DOMAIN ModuleNames -> TargetLists] :
        LET config == from_str(text_lines(bdests, markers, mdests)) IN
        /\ config.ok
        /\ \A i \in DOMAIN ModuleNames : markers[i] = "-" => mdests[i] = <<"output">>
        /\ DSParked
        /\ PathParked
        /\ BfsParked
        /\ RestParked("pulses")
        /\ cfg_presses = 0
        /\ cfg_dest = config.dest
        /\ cfg_modules = config.modules
        /\ cfg_counts = <<>>
        /\ press_counts = <<>>
        /\ pulse_queue = <<>>
        /\ press_pc = "idle"
        /\ sent = 0
        /\ received = NoPulse

\* counts.entry(pulse).or_insert(0) += n
count(cs, pulse, n) ==
    (pulse :> (IF pulse \in DOMAIN cs THEN cs[pulse] ELSE 0) + n) @@ cs

\* press_button up to its loop: the button sends a low pulse to the
\* broadcaster.
PressButton ==
    /\ press_pc = "idle"
    /\ cfg_presses < MaxPresses
    /\ cfg_presses' = cfg_presses + 1
    /\ cfg_modules' =
           IF "output" \in DOMAIN cfg_modules /\ cfg_modules["output"].kind = "Output"
           THEN [cfg_modules EXCEPT !["output"] = Output(Append(@.seen, <<>>))]
           ELSE cfg_modules
    /\ press_counts' = <<>>
    /\ pulse_queue' = <<[source |-> "button", dest |-> "broadcaster", pulse |-> "Low",
                         position |-> 1]>>
    /\ sent' = 1
    /\ received' = NoPulse
    /\ press_pc' = "pressing"
    /\ UNCHANGED <<cfg_dest, cfg_counts, notPulses>>

\* The pulses a module sends to its destinations, in their order, queued
\* from position n on.
pulses_to(name, next, output, n) ==
    [i \in 1 .. Len(next) |->
        [source |-> name, dest |-> next[i], pulse |-> output, position |-> n + i]]

\* A loop that takes the pulse queued last.
pop_back(dq) == [front |-> dq[Len(dq)], rest |-> SubSeq(dq, 1, Len(dq) - 1)]

\* queue.pop_front()
pop_front(dq) == [front |-> Head(dq), rest |-> Tail(dq)]

\* One turn of press_button's loop: the pulse at the front of the queue is
\* counted and received by its destination, and what that module sends is
\* queued.
Deliver ==
    /\ press_pc = "pressing"
    /\ pulse_queue # <<>>
    /\ LET handle(popped) ==
               LET p == popped.front
                   known == p.dest \in DOMAIN cfg_modules
                   queue(r) ==
                       LET queued ==
                               IF known /\ r.output.some /\ p.dest \in DOMAIN cfg_dest
                               THEN pulses_to(p.dest, cfg_dest[p.dest], r.output.v, sent)
                               ELSE <<>>
                       IN /\ sent + Len(queued) <= MaxPulses
                          /\ pulse_queue' = popped.rest \o queued
                          /\ sent' = sent + Len(queued)
                          /\ cfg_modules' = IF known
                                            THEN [cfg_modules EXCEPT ![p.dest] = r.module]
                                            ELSE cfg_modules
                          /\ received' =
                                 [source |-> p.source, dest |-> p.dest, pulse |-> p.pulse,
                                  position |-> p.position, known |-> known,
                                  before |-> IF known THEN cfg_modules[p.dest] ELSE Rx,
                                  output |-> r.output, queued |-> queued,
                                  left |-> popped.rest]
               IN /\ press_counts' = count(press_counts, p.pulse, 1)
                  /\ queue(IF known
                           THEN receive(cfg_modules[p.dest], p.source, p.pulse, cfg_presses)
                           ELSE [module |-> Rx, output |-> Nothing])
       IN handle(pop_front(pulse_queue))
    /\ UNCHANGED <<cfg_presses, cfg_dest, cfg_counts, press_pc, notPulses>>

\* self.counts.entry(pulse) += count for every pulse counted
RECURSIVE add_counts(_, _, _)
add_counts(cs, local, left) ==
    IF left = {} THEN cs
    ELSE LET pulse == CHOOSE x \in left : TRUE IN
         add_counts(count(cs, pulse, local[pulse]), local, left \ {pulse})

\* The queue is empty: press_button adds its counts to the configuration's
\* and returns them.
Pressed ==
    /\ press_pc = "pressing"
    /\ pulse_queue = <<>>
    /\ cfg_counts' = add_counts(cfg_counts, press_counts, DOMAIN press_counts)
    /\ press_pc' = "idle"
    /\ UNCHANGED <<cfg_presses, cfg_dest, cfg_modules, press_counts, pulse_queue,
                   sent, received, notPulses>>

PulsesNext == PressButton \/ Deliver \/ Pressed

SpecPulses == PulsesInit /\ [][PulsesNext]_vars

\* The module the last pulse went to, as it is now.
receiver == cfg_modules[received.dest]

\* The last pulse went to a module of the given kind.
ReceivedBy(kind) == received.known /\ received.before.kind = kind

\* What the module the last pulse went to queues when it sends pulse.
sends(pulse) ==
    /\ received.output = Some(pulse)
    /\ Len(received.queued) = Len(cfg_dest[received.dest])
    /\ \A i \in DOMAIN received.queued :
           /\ received.queued[i].source = received.dest
           /\ received.queued[i].dest = cfg_dest[received.dest][i]
           /\ received.queued[i].pulse = pulse

\* C24: a flip-flop is off at first; it ignores a high pulse (its state
\* stays and it sends nothing); a low pulse flips it, and it sends a high
\* pulse if that turned it on and a low pulse if that turned it off.
C24_FlipFlop ==
    /\ (cfg_presses = 0 /\ press_pc = "idle") =>
           \A name \in DOMAIN cfg_modules :
               cfg_modules[name].kind = "FlipFlop" => ~cfg_modules[name].state
    /\ (ReceivedBy("FlipFlop") /\ received.pulse = "High") =>
           /\ receiver = received.before
           /\ received.output = Nothing
           /\ received.queued = <<>>
    /\ (ReceivedBy("FlipFlop") /\ received.pulse = "Low") =>
           /\ receiver.kind = "FlipFlop"
           /\ receiver.state = ~received.before.state
           /\ IF receiver.state THEN sends("High") ELSE sends("Low")

\* A flip-flop that was on got a low pulse, turned off and sent low pulses.
C24_Witness ==
    /\ ReceivedBy("FlipFlop")
    /\ received.pulse = "Low"
    /\ received.before.state
    /\ ~receiver.state
    /\ received.queued # <<>>
    /\ received.queued[1].pulse = "Low"

\* The modules whose line names the module: its connected inputs.
connected_inputs(name) ==
    {n \in DOMAIN cfg_dest : name \in Range(cfg_dest[n])}

\* C25: a conjunction remembers a low pulse for each of its connected
\* inputs at first; on a pulse it first updates what it remembers of the
\* sender, and then sends a low pulse if it remembers a high pulse for every
\* input and a high pulse otherwise.
C25_Conjunction ==
    /\ (cfg_presses = 0 /\ press_pc = "idle") =>
           \A name \in DOMAIN cfg_modules :
               cfg_modules[name].kind = "Conjunction" =>
                   /\ DOMAIN cfg_modules[name].inputs = connected_inputs(name)
                   /\ \A i \in connected_inputs(name) :
                          cfg_modules[name].inputs[i] = "Low"
    /\ ReceivedBy("Conjunction") =>
           /\ receiver.kind = "Conjunction"
           /\ DOMAIN receiver.inputs = DOMAIN received.before.inputs
           /\ \A i \in DOMAIN receiver.inputs :
                  receiver.inputs[i] = IF i = received.source THEN received.pulse
                                       ELSE received.before.inputs[i]
           /\ IF \A i \in DOMAIN receiver.inputs : receiver.inputs[i] = "High"
              THEN sends("Low") ELSE sends("High")

\* A conjunction with two inputs got the high pulse that completes its
\* memory, and sent a low pulse.
C25_Witness ==
    /\ ReceivedBy("Conjunction")
    /\ Cardinality(DOMAIN received.before.inputs) = 2
    /\ received.pulse = "High"
    /\ \E i \in DOMAIN received.before.inputs : received.before.inputs[i] = "Low"
    /\ received.output = Some("Low")
    /\ received.queued # <<>>

\* The number of pulses this press has taken from the queue.
handled ==
    (IF "Low" \in DOMAIN press_counts THEN press_counts["Low"] ELSE 0)
    + (IF "High" \in DOMAIN press_counts THEN press_counts["High"] ELSE 0)

\* C26: within one press the pulses are handled in the order they were
\* sent.  The press starts with the one low pulse from the button to the
\* broadcaster; the n-th pulse handled is the n-th pulse queued; what a
\* module sends in answer to a pulse joins the end of the queue in the order
\* of its destination list; so the queue holds, in order, the pulses sent and
\* not yet handled.
C26_PulsesInOrder ==
    /\ (press_pc = "pressing" /\ handled = 0) =>
           pulse_queue = <<[source |-> "button", dest |-> "broadcaster",
                            pulse |-> "Low", position |-> 1]>>
    /\ (press_pc = "pressing" /\ handled > 0) =>
           /\ received.position = handled
           /\ pulse_queue = received.left \o received.queued
           /\ \A i \in DOMAIN pulse_queue : pulse_queue[i].position = handled + i
           /\ (received.known /\ received.output.some /\ received.dest \in DOMAIN cfg_dest) =>
                  sends(received.output.v)

\* Two modules have each sent pulses that wait in the queue, behind one
\* another, after the broadcaster's were handled.
C26_Witness ==
    /\ press_pc = "pressing"
    /\ handled >= 3
    /\ Len(pulse_queue) >= 2
    /\ pulse_queue[1].source # pulse_queue[2].source
    /\ pulse_queue[1].source # "broadcaster"

(***************************************************************************)
(* Day 14 (src/bin/14/main.rs): the Platform and its tip                   *)
(***************************************************************************)

\* The most tiles of the text a Platform is parsed from, and how many lines
\* the text has.
MaxTiles == 6
PlatformRows == {1, 2, 3}

\* The characters of the text: a round rock, a cube rock, an empty tile.
Tiles == {"O", "#", "."}

\* Platform::from_str's match on a character
rock_of(c) == IF c = "O" THEN "Round" ELSE "Cube"

\* Platform::from_str's grid: the rocks of the text.
parse_grid(text) ==
    [pos \in {q \in DOMAIN text : text[q] # "."} |-> rock_of(text[pos])]

\* Bounds::contains
contains(bs, pos) ==
    /\ bs.min[1] <= pos[1] /\ pos[1] <= bs.max[1]
    /\ bs.min[2] <= pos[2] /\ pos[2] <= bs.max[2]

\* iter_order that goes over the rows from the top whichever way the
\* platform tips.
iter_order_TopDown(bs, dir) ==
    LET W == bs.max[1] - bs.min[1] + 1
        H == bs.max[2] - bs.min[2] + 1
    IN [i \in 1 .. (W * H) |->
           point(bs.min[1] + ((i - 1) % W), bs.min[2] + ((i - 1) \div W))]

\* tip's iter_order: the tiles of the platform, those the rocks roll
\* towards first.
iter_order(bs, dir) ==
    LET W == bs.max[1] - bs.min[1] + 1
        H == bs.max[2] - bs.min[2] + 1
    IN [i \in 1 .. (W * H) |->
           IF dir = vector(0, -1)
           THEN point(bs.min[1] + ((i - 1) % W), bs.min[2] + ((i - 1) \div W))
           ELSE IF dir = vector(0, 1)
           THEN point(bs.min[1] + ((i - 1) % W), bs.max[2] - ((i - 1) \div W))
           ELSE IF dir = vector(-1, 0)
           THEN point(bs.min[1] + ((i - 1) \div H), bs.min[2] + ((i - 1) % H))
           ELSE point(bs.max[1] - ((i - 1) \div H), bs.min[2] + ((i - 1) % H))]

\* tip's inner loop: the tile a rock at dest rolls to.
RECURSIVE roll(_, _, _, _)
roll(g, bs, dest, dir) ==
    IF ~contains(bs, add(dest, dir)) \/ add(dest, dir) \in DOMAIN g THEN dest
    ELSE roll(g, bs, add(dest, dir), dir)

\* tip's loop over the tiles in order: every round rock rolls as far as it
\* can.
RECURSIVE tip_over(_, _, _, _)
tip_over(g, bs, order, dir) ==
    IF order = <<>> THEN g
    ELSE IF Head(order) \notin DOMAIN g \/ g[Head(order)] # "Round"
    THEN tip_over(g, bs, Tail(order), dir)
    ELSE tip_over((roll(g, bs, Head(order), dir) :> "Round")
                      @@ [q \in DOMAIN g \ {Head(order)} |-> g[q]],
                  bs, Tail(order), dir)

\* Platform::tip
tip(g, bs, dir) == tip_over(g, bs, iter_order(bs, dir), dir)

PlatformInit ==
    \E h \in PlatformRows :
    \E w \in 1 .. (MaxTiles \div h) :
    \E text \in [Cells(w, h) -> Tiles] :
        /\ parse_grid(text) # <<>>
        /\ DSParked
        /\ PathParked
        /\ BfsParked
        /\ RestParked("platform")
        /\ grid = parse_grid(text)
        /\ platform_bounds = from_points(DOMAIN parse_grid(text))
        /\ tipped = ZERO
        /\ grid_before = parse_grid(text)

\* platform.tip(dir)
Tip(dir) ==
    /\ grid' = tip(grid, platform_bounds, dir)
    /\ tipped' = dir
    /\ grid_before' = grid
    /\ UNCHANGED <<platform_bounds, notPlatform>>

PlatformNext == \E dir \in Range(CARDINAL) : Tip(dir)

SpecPlatform == PlatformInit /\ [][PlatformNext]_vars

\* The round rocks that have an empty tile of the platform next to them in
\* direction dir.
loose(dir) ==
    {pos \in DOMAIN grid :
        /\ grid[pos] = "Round"
        /\ contains(platform_bounds, add(pos, dir))
        /\ add(pos, dir) \notin DOMAIN grid}

\* C27: tip(dir) is idempotent for each of the four directions: after it no
\* round rock has an empty tile of the platform next to it in direction dir,
\* so that tipping the same way again leaves the grid as it is.
C27_TipIdempotent ==
    tipped # ZERO =>
        /\ loose(tipped) = {}
        /\ tip(grid, platform_bounds, tipped) = grid

\* A tip to the south moved two round rocks of one column, one behind the
\* other.
C27_Witness ==
    /\ tipped = vector(0, 1)
    /\ \E pos \in DOMAIN grid_before :
        /\ grid_before[pos] = "Round"
        /\ add(pos, tipped) \in DOMAIN grid_before
        /\ grid_before[add(pos, tipped)] = "Round"
        /\ pos \notin DOMAIN grid
        /\ add(pos, tipped) \in DOMAIN grid

(***************************************************************************)
(* Day 22 (src/bin/22/main.rs): the Tower of bricks                        *)
(***************************************************************************)

\* The most bricks of a tower, and the highest z a line of the text names.
MaxBricks == 4
MaxZ == 4

\* The x coordinates of the text; every y is 0.
BrickXs == {0, 1}

\* BrickStr::from_str on the line "x1,y1,z1~x2,y2,z2"
brick_str(x1, y1, z1, x2, y2, z2) ==
    [bounds2d |-> from_points({point(x1, y1), point(x2, y2)}),
     z_top    |-> IF z1 > z2 THEN z1 ELSE z2,
     height   |-> abs(z2 - z1) + 1]

\* Bounds::intersects
intersects(a, b) ==
    /\ a.min[1] <= b.max[1] /\ b.min[1] <= a.max[1]
    /\ a.min[2] <= b.max[2] /\ b.min[2] <= a.max[2]

\* Brick::create
brick_create(id, b) ==
    [id |-> id, bounds2d |-> b.bounds2d, z_top |-> b.z_top, height |-> b.height]

\* Tower::create: the bricks are numbered from 1 in the order of the lines.
tower_create(all_bricks) ==
    {brick_create(i, all_bricks[i]) : i \in DOMAIN all_bricks}

\* Tower::clone_without
clone_without(bs, id) == {b \in bs : b.id # id}

\* Tower::collisions: the bricks whose top is in the row and that are over
\* or under the bounds.
collisions(bs, bounds2d, row) ==
    {b.id : b \in {c \in bs : c.z_top = row /\ intersects(c.bounds2d, bounds2d)}}

\* descend_brick's loop, from the row down: where the brick stops and what
\* it stops on.
RECURSIVE descend_brick_from(_, _, _)
descend_brick_from(bs, brick, row) ==
    IF row < brick.height
    THEN [brick |-> [brick EXCEPT !.z_top = brick.height], on |-> {}]
    ELSE LET stop(hit) ==
                 IF hit # {}
                 THEN [brick |-> [brick EXCEPT !.z_top = row + 1], on |-> hit]
                 ELSE descend_brick_from(bs, brick, row - 1)
         IN stop(collisions(bs, brick.bounds2d, row - brick.height + 1))

\* Tower::descend_brick
descend_brick(bs, brick) == descend_brick_from(bs, brick, brick.z_top - 1)

\* descend_row's loop over the bricks taken out of the row. A brick that
\* descends looks at lower rows only, so the bricks of one row fall
\* whatever the order the set yields them in.
RECURSIVE descend_bricks(_, _, _)
descend_bricks(t, todo, row) ==
    IF todo = {} THEN t
    ELSE LET place(brick, d) ==
                 [bricks |-> t.bricks \cup {d.brick},
                  supported_by |-> IF d.on = {} THEN t.supported_by
                                   ELSE (brick.id :> d.on) @@ t.supported_by,
                  moved |-> t.moved + (IF d.brick.z_top # row THEN 1 ELSE 0)]
             step(brick) ==
                 descend_bricks(place(brick, descend_brick(t.bricks, brick)),
                                todo \ {brick}, row)
         IN step(CHOOSE b \in todo : TRUE)

\* Tower::descend_row
descend_row(t, row) ==
    descend_bricks([t EXCEPT !.bricks = {b \in t.bricks : b.z_top # row}],
                   {b \in t.bricks : b.z_top = row}, row)

\* descend_all's loop over the rows 2 ..= top_row
RECURSIVE descend_rows(_, _, _)
descend_rows(t, row, top_row) ==
    IF row > top_row THEN t
    ELSE descend_rows(descend_row(t, row), row + 1, top_row)

\* descend_all's second loop: supports is supported_by the other way round.
supports_of(sb) ==
    [v \in UNION {sb[k] : k \in DOMAIN sb} |-> {k \in DOMAIN sb : v \in sb[k]}]

\* Tower::descend_all on a tower whose supported_by is empty. ok is FALSE
\* where last_key_value().unwrap() panics: the tower has no brick.
descend_all(bs) ==
    IF bs = {}
    THEN [ok |-> FALSE, bricks |-> bs, supported_by |-> <<>>,
          supports |-> <<>>, moved |-> 0]
    ELSE LET built(t) ==
                 [ok |-> TRUE, bricks |-> t.bricks,
                  supported_by |-> t.supported_by,
                  supports |-> supports_of(t.supported_by),
                  moved |-> t.moved]
         IN built(descend_rows([bricks |-> bs, supported_by |-> <<>>, moved |-> 0],
                                2, SetMax({b.z_top : b \in bs})))

\* Tower::critical_bricks
critical_bricks(sb) ==
    UNION {sb[k] : k \in {j \in DOMAIN sb : Cardinality(sb[j]) = 1}}

\* Tower::non_critical_bricks
non_critical_bricks(bs, critical) == {b.id : b \in bs} \ critical

\* The orders a vector filled from a HashMap may hold the set S in.
Orders(S) == {f \in [1 .. Cardinality(S) -> S] : Range(f) = S}

\* find_unstable_for's loop over the bricks cur supports
RECURSIVE visit(_, _, _, _)
visit(sb, order, rem, fr) ==
    IF order = <<>> THEN [removed |-> rem, frontier |-> fr]
    ELSE IF /\ \A b \in sb[Head(order)] : b \in rem
            /\ Head(order) \notin rem
    THEN visit(sb, Tail(order), rem \cup {Head(order)}, Append(fr, Head(order)))
    ELSE visit(sb, Tail(order), rem, fr)

\* The lines of the text: a brick lies along x or stands one block tall or
\* two.
BrickLines ==
    {brick_str(x1, 0, z1, x2, 0, z2) :
        <<x1, z1, x2, z2>> \in
            {q \in BrickXs \X (1 .. MaxZ) \X BrickXs \X (1 .. MaxZ) :
                /\ q[1] = q[3] \/ q[2] = q[4]
                /\ abs(q[4] - q[2]) <= 1}}

\* Two bricks of the text share a block.
overlap(a, b) ==
    /\ intersects(a.bounds2d, b.bounds2d)
    /\ a.z_top - a.height + 1 <= b.z_top
    /\ b.z_top - b.height + 1 <= a.z_top

\* The order the lines of the text come in: it decides the ids only.
line_key(b) ==
    (((b.z_top * 4) + b.height) * 4 + b.bounds2d.min[1]) * 4 + b.bounds2d.max[1]

\* The texts of at most n lines whose bricks share no block.
RECURSIVE BrickTexts(_)
BrickTexts(n) ==
    IF n = 0 THEN {<<>>}
    ELSE LET grow(shorter) ==
                 shorter \cup
                 {Append(t, b) : <<t, b>> \in
                     {q \in {p \in shorter : Len(p) = n - 1} \X BrickLines :
                         /\ \A i \in DOMAIN q[1] : ~overlap(q[1][i], q[2])
                         /\ q[1] # <<>> =>
                                line_key(q[1][Len(q[1])]) < line_key(q[2])}}
         IN grow(BrickTexts(n - 1))

TowerInit ==
    \E text \in BrickTexts(MaxBricks) \ {<<>>} :
        /\ DSParked
        /\ PathParked
        /\ BfsParked
        /\ RestParked("tower")
        /\ bricks = tower_create(text)
        /\ supported_by = <<>>
        /\ supports = <<>>
        /\ tower_pc = "created"
        /\ without = 0
        /\ removed = {}
        /\ unstable_frontier = <<>>
        /\ all_moved = 0

\* main: input.descend_all()
DescendAll ==
    /\ tower_pc = "created"
    /\ LET settled(t) ==
               /\ bricks' = t.bricks
               /\ supported_by' = t.supported_by
               /\ supports' = t.supports
       IN settled(descend_all(bricks))
    /\ tower_pc' = "settled"
    /\ UNCHANGED <<without, removed, unstable_frontier, all_moved, notTower>>

\* find_unstable_for(brick), up to its loop
FindUnstableFor(brick) ==
    /\ tower_pc = "settled"
    /\ without' = brick
    /\ removed' = {brick}
    /\ unstable_frontier' = <<brick>>
    /\ tower_pc' = "finding"
    /\ UNCHANGED <<bricks, supported_by, supports, all_moved, notTower>>

\* One turn of find_unstable_for's loop: the front of the frontier and the
\* bricks it supports.
Visit ==
    /\ tower_pc = "finding"
    /\ unstable_frontier # <<>>
    /\ \E order \in Orders(IF Head(unstable_frontier) \in DOMAIN supports
                           THEN supports[Head(unstable_frontier)] ELSE {}) :
           LET keep(r) ==
                   /\ removed' = r.removed
                   /\ unstable_frontier' = r.frontier
           IN keep(visit(supported_by, order, removed, Tail(unstable_frontier)))
    /\ UNCHANGED <<bricks, supported_by, supports, tower_pc, without, all_moved,
                   notTower>>

\* find_unstable_for's end: the brick removed first does not count.
Found ==
    /\ tower_pc = "finding"
    /\ unstable_frontier = <<>>
    /\ removed' = removed \ {without}
    /\ tower_pc' = "found"
    /\ UNCHANGED <<bricks, supported_by, supports, without, unstable_frontier,
                   all_moved, notTower>>

\* simulate_unstable_bricks for the same brick: the tower without it
\* descends again.
Simulate ==
    /\ tower_pc = "found"
    /\ LET result(t) ==
               /\ tower_pc' = IF t.ok THEN "simulated" ELSE "panicked"
               /\ all_moved' = t.moved
       IN result(descend_all(clone_without(bricks, without)))
    /\ UNCHANGED <<bricks, supported_by, supports, without, removed,
                   unstable_frontier, notTower>>

TowerNext ==
    \/ DescendAll
    \/ \E brick \in {b.id : b \in bricks} : FindUnstableFor(brick)
    \/ Visit
    \/ Found
    \/ Simulate

SpecTower == TowerInit /\ [][TowerNext]_vars

\* The equivalence where the tower without the brick still has a brick.
TraversalIsSimulation ==
    tower_pc = "simulated" =>
        /\ Cardinality(removed) = all_moved
        /\ without \in non_critical_bricks(bricks, critical_bricks(supported_by)) =>
               removed = {} /\ all_moved = 0

\* C28: for a settled tower and every brick b of it, find_unstable_for(b)
\* finds as many bricks as move when the tower without b descends again,
\* and for a brick that is not critical both numbers are zero.
C28_TraversalMatchesSimulation ==
    /\ tower_pc # "panicked"
    /\ TraversalIsSimulation

(***************************************************************************)
(* Day 05 (src/bin/05/main.rs): the Almanac and transform_range            *)
(***************************************************************************)

\* The largest number of a line of the text, the longest range of a line,
\* and the most maps and mapping lines of the text.
MaxId == 2
MaxLen == 2
MaxMaps == 2
MaxMappings == 2

\* min_location_ranges' min: i64::MAX, which every id is below, until the
\* first chunk is done.
NoMin == [max |-> TRUE, v |-> 0]

\* std::cmp::min(min, id)
cmp_min(m, id) == IF m.max \/ id < m.v THEN [max |-> FALSE, v |-> id] ELSE m

\* Mapping::from_str on the line "dest source len"
mapping_str(dest_start, source_start, len) ==
    [source |-> [start |-> source_start, end |-> source_start + len],
     delta  |-> dest_start - source_start]

\* A line of the almanac's text: a " map:" line or the three numbers of a
\* mapping.
MapLine == [header |-> TRUE, dest |-> 0, source |-> 0, len |-> 0]
MappingLine(d, s, l) == [header |-> FALSE, dest |-> d, source |-> s, len |-> l]

\* Almanac::from_str's loop over the lines. ok is FALSE where the assertion
\* on line 51 fails: a mapping comes before the first map.
RECURSIVE almanac_lines(_, _)
almanac_lines(lines, mappings) ==
    IF lines = <<>> THEN [ok |-> TRUE, mappings |-> mappings]
    ELSE IF Head(lines).header
    THEN almanac_lines(Tail(lines), Append(mappings, <<>>))
    ELSE IF mappings = <<>> THEN [ok |-> FALSE, mappings |-> mappings]
    ELSE almanac_lines(Tail(lines),
             [mappings EXCEPT ![Len(mappings)] =
                 Append(@, mapping_str(Head(lines).dest, Head(lines).source,
                                       Head(lines).len))])

\* Almanac::from_str
almanac_str(lines) == almanac_lines(lines, <<>>)

\* RangeSet::from(start..end): the ids of the range.
range_set(r) == r.start .. (r.end - 1)

\* RangeSet::iter: the ranges of a set, each as long as it can be, from the
\* lowest.
RECURSIVE set_ranges(_)
set_ranges(S) ==
    IF S = {} THEN <<>>
    ELSE LET upto(lo) == SetMax({h \in S : \A x \in lo .. h : x \in S})
             first(lo, hi) ==
                 <<[start |-> lo, end |-> hi + 1]>> \o set_ranges(S \ (lo .. hi))
             from(lo) == first(lo, upto(lo))
         IN from(SetMin(S))

\* rangeset_len
RECURSIVE sum_lens(_)
sum_lens(rs) ==
    IF rs = <<>> THEN 0 ELSE (Head(rs).end - Head(rs).start) + sum_lens(Tail(rs))
rangeset_len(S) == sum_lens(set_ranges(S))

\* transform_range's loop over the mappings
RECURSIVE transform_mappings(_, _, _, _)
transform_mappings(mappings, ids, remaining, moved) ==
    IF mappings = <<>> THEN [moved |-> moved, remaining |-> remaining]
    ELSE LET mapping == Head(mappings)
             cut(r) ==
                 transform_mappings(Tail(mappings), ids,
                     remaining \ range_set(r),
                     moved \cup range_set([start |-> r.start + mapping.delta,
                                           end   |-> r.end + mapping.delta]))
         IN IF ids.start < mapping.source.end /\ ids.end > mapping.source.start
            THEN cut([start |-> IF ids.start > mapping.source.start
                                THEN ids.start ELSE mapping.source.start,
                      end   |-> IF ids.end < mapping.source.end
                                THEN ids.end ELSE mapping.source.end])
            ELSE transform_mappings(Tail(mappings), ids, remaining, moved)

\* transform_range: ret, and whether debug_assert_eq! finds the lengths
\* equal.
transform_range(mappings, ids) ==
    LET out(t) ==
            [ret |-> t.moved \cup t.remaining,
             asserted |-> ids.end - ids.start = rangeset_len(t.moved \cup t.remaining)]
    IN out(transform_mappings(mappings, ids, range_set(ids), {}))

\* No call of transform_range yet.
NoTransform == [start |-> 0, end |-> 0]

\* The lines an almanac's text is made of.
AlmanacLines ==
    {MapLine} \cup
    {MappingLine(d, s, l) : d \in 0 .. MaxId, s \in 0 .. MaxId, l \in 1 .. MaxLen}

\* How many " map:" lines a text has.
headers(lines) == Cardinality({i \in DOMAIN lines : lines[i].header})

AlmanacInit ==
    \E n \in 1 .. (MaxMaps + MaxMappings) :
    \E lines \in [1 .. n -> AlmanacLines] :
    \E seed_start \in 0 .. MaxId :
    \E seed_len \in 0 .. MaxLen :
    \E build \in BOOLEAN :
        /\ lines[1].header
        /\ headers(lines) <= MaxMaps
        /\ n - headers(lines) <= MaxMappings
        /\ DSParked
        /\ PathParked
        /\ BfsParked
        /\ RestParked("almanac")
        /\ almanac = almanac_str(lines).mappings
        /\ seeds = <<seed_start, seed_len>>
        /\ debug_build = build
        /\ min_pc = "chunk"
        /\ map_index = 0
        /\ ranges = {}
        /\ pending = <<>>
        /\ next_ranges = {}
        /\ call_ids = NoTransform
        /\ call_ret = {}
        /\ min_loc = NoMin

\* min_location_ranges: the chunk's ranges, and into the loop over the
\* maps.
StartChunk ==
    /\ min_pc = "chunk"
    /\ ranges' = range_set([start |-> seeds[1], end |-> seeds[1] + seeds[2]])
    /\ map_index' = 1
    /\ pending' = set_ranges(ranges')
    /\ next_ranges' = {}
    /\ min_pc' = "maps"
    /\ UNCHANGED <<almanac, seeds, debug_build, call_ids, call_ret, min_loc,
                   notAlmanac>>

\* next_ranges |= transform_range(mapping, &range) for the next range of
\* ranges.iter(). In a debug build a failing debug_assert_eq! panics.
TransformRange ==
    /\ min_pc = "maps"
    /\ map_index <= Len(almanac)
    /\ pending # <<>>
    /\ call_ids' = Head(pending)
    /\ LET returned(t) ==
               /\ call_ret' = t.ret
               /\ IF debug_build /\ ~t.asserted
                  THEN /\ min_pc' = "panicked"
                       /\ UNCHANGED <<pending, next_ranges>>
                  ELSE /\ min_pc' = min_pc
                       /\ pending' = Tail(pending)
                       /\ next_ranges' = next_ranges \cup t.ret
       IN returned(transform_range(almanac[map_index], Head(pending)))
    /\ UNCHANGED <<almanac, seeds, debug_build, map_index, ranges, min_loc,
                   notAlmanac>>

\* The end of the loop's body for one map: ranges = next_ranges.
EndMap ==
    /\ min_pc = "maps"
    /\ map_index <= Len(almanac)
    /\ pending = <<>>
    /\ ranges' = next_ranges
    /\ map_index' = map_index + 1
    /\ pending' = set_ranges(next_ranges)
    /\ next_ranges' = {}
    /\ UNCHANGED <<almanac, seeds, debug_build, min_pc, call_ids, call_ret,
                   min_loc, notAlmanac>>

\* After the maps: the start of the first range, which expect("Not-empty")
\* panics without.
MinLocation ==
    /\ min_pc = "maps"
    /\ map_index > Len(almanac)
    /\ IF ranges = {}
       THEN min_pc' = "panicked" /\ UNCHANGED min_loc
       ELSE /\ min_pc' = "done"
            /\ min_loc' = cmp_min(min_loc, set_ranges(ranges)[1].start)
    /\ UNCHANGED <<almanac, seeds, debug_build, map_index, ranges, pending,
                   next_ranges, call_ids, call_ret, notAlmanac>>

AlmanacNext ==
    \/ StartChunk
    \/ TransformRange
    \/ EndMap
    \/ MinLocation

SpecAlmanac == AlmanacInit /\ [][AlmanacNext]_vars

\* transform
RECURSIVE transform(_, _)
transform(mappings, id) ==
    IF mappings = <<>> THEN id
    ELSE IF Head(mappings).source.start <= id /\ id < Head(mappings).source.end
    THEN id + Head(mappings).delta
    ELSE transform(Tail(mappings), id)

\* The last call of transform_range was for the map the loop is at.
called_here ==
    /\ call_ids # NoTransform
    /\ map_index <= Len(almanac)
    /\ next_ranges # {} \/ min_pc = "panicked"

\* No two mappings of the map have a source id in common.
apart(mappings) ==
    \A i, j \in DOMAIN mappings :
        i # j => range_set(mappings[i].source) \cap range_set(mappings[j].source) = {}

\* Where the mappings of the map are apart, transform_range returns the
\* ids that transform sends the ids of the range to, and as many as came in
\* where no two of them are sent to the same id.
KeepsLengthWhereOneToOne ==
    called_here /\ apart(almanac[map_index]) =>
        /\ call_ret = {transform(almanac[map_index], id) : id \in range_set(call_ids)}
        /\ (\A a, b \in range_set(call_ids) :
                a # b => transform(almanac[map_index], a) # transform(almanac[map_index], b))
            => rangeset_len(call_ret) = call_ids.end - call_ids.start

\* C29: what transform_range returns is as long as the ids it was called
\* with, ids.end - ids.start: the debug assertion at its end holds for
\* every call.
C29_TransformKeepsLength ==
    call_ids # NoTransform =>
        rangeset_len(call_ret) = call_ids.end - call_ids.start

====
